---- MODULE Spec2Model ----
(***************************************************************************)
(* Model of the auto_stock backtest engine (backend/app/services/          *)
(* backtest.py, backend/app/utils/tick_size.py) and of the trading engine  *)
(* life cycle (backend/app/services/auto_trading_engine.py,                *)
(* backend/app/api/trading_routes.py), with the library functions of       *)
(* monte_carlo.py, parser.py, advanced_risk_manager.py and the position    *)
(* ledger of position_manager.py.                                          *)
(*                                                                         *)
(* Numbers.  The engine computes with floats; the model computes with      *)
(* exact rationals kept as integers:                                       *)
(*   - money and prices are integers counted in 1/Scale of a currency unit *)
(*   - every *_pct parameter is an integer number of percent               *)
(*     (stop_pct = 8 stands for 0.08, take_pct = 1000 for 10.0)            *)
(*   - bps parameters are multiples of BpsUnit                             *)
(*   - a fraction (position fraction, size multiplier) is a pair <<n, d>>  *)
(* Input prices are whole currency units, so every price level, execution  *)
(* price, cash and equity value of a run is an exact integer of the model. *)
(***************************************************************************)
EXTENDS Integers, Sequences, FiniteSets, TLC

\* ------------------------------------------------------------------ bounds
NumBars == 4          \* len(self.data) of the runs of Spec
MaxStarts == 2        \* start() calls on one trading engine

\* ----------------------------------------------------- number representation
Scale == 100
BpsUnit == 50
BpsDen == 10000 \div BpsUnit

None == 0 - 1                \* Python None of an index / a date
NaN == 0 - 1000000000        \* float('nan')

Min2(a, b) == IF a <= b THEN a ELSE b
Max2(a, b) == IF a >= b THEN a ELSE b

RECURSIVE Gcd(_, _)
Gcd(a, b) == IF b = 0 THEN a ELSE Gcd(b, a % b)

\* the fraction n/d in lowest terms
Frac(n, d) == LET g == Gcd(n, d) IN <<n \div g, d \div g>>

VARIABLES
    cfg,        \* BacktestEngine.__init__ arguments (risk_params, costs, capital, market)
    pc,         \* position of run(): "loop", "done", "error"
    i,          \* index of the next bar of the for loop
    row,        \* self.data.iloc[i-1] with its entry/exit signal (the bar just handled)
    prev_row,   \* the entry/exit signal of the bar before it (iloc[i-2])
    st,         \* the locals of run() and self.trades / self.warnings / curves
    routes,     \* trading_routes module globals and last response
    engine,     \* AutoTradingEngine instance fields
    calls,      \* start() invocations and the loop tasks each one created
    call,       \* one call of a library function: its arguments and its result
    mc,         \* MonteCarloSimulator.run(): inputs, loop index, distributions
    pm          \* PositionManager instance fields and its open/close calls in flight

vars == <<cfg, pc, i, row, prev_row, st, routes, engine, calls, call, mc, pm>>
libVars == <<call, mc, pm>>
btVars == <<cfg, pc, i, row, prev_row, st>>
engVars == <<routes, engine, calls>>

\* ---------------------------------------------------------------- tick size
\* price in 1/Scale units
\* variant of the table that gives every price from 1,000 to below 50,000 the tick 50
get_korean_tick_size_NoFiveBand(price) ==
    IF price < 1000 * Scale THEN 1
    ELSE IF price < 50000 * Scale THEN 50
    ELSE IF price < 100000 * Scale THEN 100
    ELSE IF price < 500000 * Scale THEN 500
    ELSE 1000

get_korean_tick_size(price) ==
    IF price < 1000 * Scale THEN 1
    ELSE IF price < 5000 * Scale THEN 5
    ELSE IF price < 10000 * Scale THEN 10
    ELSE IF price < 50000 * Scale THEN 50
    ELSE IF price < 100000 * Scale THEN 100
    ELSE IF price < 500000 * Scale THEN 500
    ELSE 1000

\* The price is the rational num/den (in 1/Scale units).  Comparing the floor
\* with the integer thresholds of the table equals comparing the price.
round_to_tick_down(num, den, is_korean) ==
    IF ~is_korean THEN num \div den
    ELSE LET tick == get_korean_tick_size(num \div den)
         IN (num \div (den * Scale * tick)) * tick * Scale

\* round_to_tick_up that always steps to the next tick (floor + 1)
round_to_tick_up_NextTick(num, den, is_korean) ==
    IF ~is_korean THEN num \div den
    ELSE LET tick == get_korean_tick_size(num \div den)
             q == den * Scale * tick
         IN ((num \div q) + 1) * tick * Scale

round_to_tick_up(num, den, is_korean) ==
    IF ~is_korean THEN num \div den
    ELSE LET tick == get_korean_tick_size(num \div den)
             q == den * Scale * tick
         IN ((num + q - 1) \div q) * tick * Scale

\* ------------------------------------------------------- execution prices
_execute_entry_price(price) ==
    round_to_tick_up(price * (BpsDen + cfg.slippage_bps \div BpsUnit)
                           * (BpsDen + cfg.transaction_cost_bps \div BpsUnit),
                     BpsDen * BpsDen, cfg.is_korean_stock)

_execute_exit_price(price) ==
    round_to_tick_down(price * (BpsDen - cfg.slippage_bps \div BpsUnit)
                             * (BpsDen - cfg.transaction_cost_bps \div BpsUnit),
                       BpsDen * BpsDen, cfg.is_korean_stock)


\* ------------------------------------------------------------ backtest state
partial_rules ==
    << [threshold |-> 20, sell_pct |-> 50, flag |-> "partial_20"],
       [threshold |-> 40, sell_pct |-> 25, flag |-> "partial_40"] >>

\* position = None
NoPosition ==
    [shares |-> 0, entry_price |-> 0, entry_date |-> None, stop_loss |-> 0,
     take_profit |-> 0, highest_price |-> 0, invested_capital |-> 0,
     pending_exit |-> FALSE,
     partial_flags |-> [partial_20 |-> FALSE, partial_40 |-> FALSE]]

\* the locals of run() right after line 97, with the engine's fresh lists
InitRun(capital) ==
    [cash |-> capital, equity |-> capital, previous_equity |-> capital,
     position |-> NoPosition,
     pending_entry_idx |-> None, pending_entry_fraction |-> <<0, 1>>,
     pending_exit_idx |-> None,
     cooldown |-> 0, consecutive_losses |-> 0,
     max_consecutive_losses_observed |-> 0,
     trading_halted |-> FALSE, halt_date |-> None,
     scale_down_active |-> FALSE, size_multiplier |-> <<1, 1>>,
     equity_history |-> << >>, daily_returns |-> << >>,
     trades |-> << >>, warnings |-> << >>]

HasPosition(s) == s.position # NoPosition

\* ---------------------------------------------------------- position sizing
\* returns the fraction as a pair; vol_column is the VOL_annualized column of
\* the data in percent, None when the column is absent
_calculate_position_size(s) ==
    IF cfg.rp.position_sizing = "equal_weight" THEN <<1, 1>>
    ELSE IF cfg.rp.position_sizing = "vol_target_10"
         THEN IF cfg.vol_column # None /\ cfg.vol_column > 0
              THEN IF 10 <= cfg.vol_column THEN Frac(10, cfg.vol_column) ELSE <<1, 1>>
              ELSE <<1, 1>>
    ELSE <<1, 1>>

\* returns [shares, capital_used]
_determine_shares(cash, equity, entry_price, position_fraction, size_multiplier) ==
    IF entry_price <= 0 THEN [shares |-> 0, capital_used |-> 0]
    ELSE
      LET fn == position_fraction[1] * size_multiplier[1]
          fd == position_fraction[2] * size_multiplier[2]
          \* floor(min(equity*fraction*multiplier, cash) / entry_price)
          shares_by_capital == Min2((equity * fn) \div (fd * entry_price),
                                    cash \div entry_price)
          \* risk_per_share = entry_price * stop_pct  (stop_pct >= 0.01, so > 0)
          \* risk_budget = equity * max_risk_per_trade_pct * multiplier
          shares_by_risk ==
              IF entry_price * cfg.rp.stop_pct > 0
              THEN (equity * cfg.rp.max_risk_per_trade_pct * size_multiplier[1])
                      \div (size_multiplier[2] * entry_price * cfg.rp.stop_pct)
              ELSE shares_by_capital
          shares_by_cash == cash \div entry_price
          shares == Min2(shares_by_capital, Min2(shares_by_risk, shares_by_cash))
      IN IF shares <= 0 THEN [shares |-> 0, capital_used |-> 0]
         ELSE [shares |-> shares, capital_used |-> shares * entry_price]

\* ------------------------------------------------------------ closing trades
_holding_days(entry_date, exit_date) == exit_date - entry_date

\* returns the run state with cash, equity and the ledger updated, and the pnl
_close_position(s, exit_price, exit_date, exit_reason) ==
    LET shares == s.position.shares
        pnl == (exit_price - s.position.entry_price) * shares
        trade == [entry_date |-> s.position.entry_date, exit_date |-> exit_date,
                  entry_price |-> s.position.entry_price, exit_price |-> exit_price,
                  shares |-> shares, pnl |-> pnl, exit_reason |-> exit_reason,
                  holding_days |-> _holding_days(s.position.entry_date, exit_date),
                  partial |-> FALSE]
    IN IF shares <= 0
       THEN [s |-> [s EXCEPT !.equity = s.cash], pnl |-> 0]
       ELSE [s |-> [s EXCEPT !.cash = s.cash + exit_price * shares,
                             !.equity = s.cash + exit_price * shares,
                             !.trades = Append(@, trade)],
             pnl |-> pnl]

\* AfterFullExit that arms no cooldown after a losing exit
AfterFullExit_NoCooldown(s, pnl) ==
    LET cl == IF pnl > 0 THEN 0 ELSE s.consecutive_losses + 1
    IN [s EXCEPT !.position = NoPosition,
                 !.pending_exit_idx = None,
                 !.consecutive_losses = cl,
                 !.max_consecutive_losses_observed = Max2(@, cl)]

\* lines 124-129 and 206-211: bookkeeping after a full exit
AfterFullExit(s, pnl) ==
    LET cl == IF pnl > 0 THEN 0 ELSE s.consecutive_losses + 1
    IN [s EXCEPT !.position = NoPosition,
                 !.pending_exit_idx = None,
                 !.cooldown = IF pnl <= 0 /\ cfg.rp.cooldown_days_after_loss > 0
                              THEN Max2(@, cfg.rp.cooldown_days_after_loss) ELSE @,
                 !.consecutive_losses = cl,
                 !.max_consecutive_losses_observed = Max2(@, cl)]

\* PartialRule selling the shares without taking them off the position
PartialRule_KeepsShares(s, rule, intraday_high, date) ==
    LET pos == s.position
        target_num == pos.entry_price * (100 + rule.threshold)
        shares_to_exit == (pos.shares * rule.sell_pct) \div 100
        exit_price == _execute_exit_price(target_num \div 100)
        trade == [entry_date |-> pos.entry_date, exit_date |-> date,
                  entry_price |-> pos.entry_price, exit_price |-> exit_price,
                  shares |-> shares_to_exit,
                  pnl |-> (exit_price - pos.entry_price) * shares_to_exit,
                  exit_reason |-> rule.flag,
                  holding_days |-> _holding_days(pos.entry_date, date),
                  partial |-> TRUE]
        flagged == [pos.partial_flags EXCEPT ![rule.flag] = TRUE]
    IN IF pos.shares <= 0 \/ pos.partial_flags[rule.flag] THEN s
       ELSE IF intraday_high * 100 < target_num THEN s
       ELSE IF shares_to_exit <= 0
            THEN [s EXCEPT !.position.partial_flags = flagged]
       ELSE [s EXCEPT !.cash = @ + exit_price * shares_to_exit,
                      !.trades = Append(@, trade),
                      !.position.partial_flags = flagged]

\* one rule of the loop of _evaluate_partial_exits; price levels are compared
\* as entry_price * (100 + threshold) against intraday_high * 100
PartialRule(s, rule, intraday_high, date) ==
    LET pos == s.position
        target_num == pos.entry_price * (100 + rule.threshold)
        shares_to_exit == (pos.shares * rule.sell_pct) \div 100
        exit_price == _execute_exit_price(target_num \div 100)
        trade == [entry_date |-> pos.entry_date, exit_date |-> date,
                  entry_price |-> pos.entry_price, exit_price |-> exit_price,
                  shares |-> shares_to_exit,
                  pnl |-> (exit_price - pos.entry_price) * shares_to_exit,
                  exit_reason |-> rule.flag,
                  holding_days |-> _holding_days(pos.entry_date, date),
                  partial |-> TRUE]
        flagged == [pos.partial_flags EXCEPT ![rule.flag] = TRUE]
    IN \* pos.shares <= 0: the loop was left by the break of line 350
       IF pos.shares <= 0 \/ pos.partial_flags[rule.flag] THEN s
       ELSE IF intraday_high * 100 < target_num THEN s
       ELSE IF shares_to_exit <= 0
            THEN [s EXCEPT !.position.partial_flags = flagged]
       ELSE [s EXCEPT !.cash = @ + exit_price * shares_to_exit,
                      !.trades = Append(@, trade),
                      !.position.shares = @ - shares_to_exit,
                      !.position.invested_capital =
                          Max2(0, @ - shares_to_exit * pos.entry_price),
                      !.position.partial_flags = flagged]

\* returns the state after the rules, with equity recomputed (line 351)
_evaluate_partial_exits(s, intraday_high, close_price, date) ==
    LET s1 == PartialRule(s, partial_rules[1], intraday_high, date)
        s2 == PartialRule(s1, partial_rules[2], intraday_high, date)
        closed == s2.position.shares <= 0
    IN [closed |-> closed,
        s |-> [s2 EXCEPT !.equity = IF closed THEN s2.cash
                                   ELSE s2.cash + s2.position.shares * close_price]]

\* ------------------------------------------------- the body of the for loop
\* lines 113-119: drawdown halt; equity <= initial_capital * (1 - max_dd)
HaltStep(s, date) ==
    IF ~s.trading_halted
       /\ s.equity * 100 <= cfg.initial_capital * (100 - cfg.rp.max_portfolio_drawdown_pct)
    THEN [s EXCEPT !.trading_halted = TRUE, !.halt_date = date,
                   !.warnings = Append(@, <<"halted", date>>)]
    ELSE s

\* PendingExitStep dating the trade on the bar of the signal
PendingExitStep_SignalDate(s, idx, r) ==
    IF HasPosition(s) /\ s.pending_exit_idx = idx
    THEN LET c == _close_position(s, _execute_exit_price(r.open), idx - 1,
                                  "exit_signal_open")
         IN AfterFullExit(c.s, c.pnl)
    ELSE s

\* lines 121-129: the exit scheduled for this bar, at the adjusted open
PendingExitStep(s, idx, r) ==
    IF HasPosition(s) /\ s.pending_exit_idx = idx
    THEN LET c == _close_position(s, _execute_exit_price(r.open), idx, "exit_signal_open")
         IN AfterFullExit(c.s, c.pnl)
    ELSE s

\* line 131: the guard of the entry fill
EntryDue_IgnoresHalt(s, idx) ==
    ~HasPosition(s) /\ s.pending_entry_idx = idx /\ s.cooldown = 0

EntryDue(s, idx) ==
    ~HasPosition(s) /\ s.pending_entry_idx = idx /\ ~s.trading_halted /\ s.cooldown = 0

\* lines 141-152 and 163: the position dict, the cash taken, the pending entry cleared
OpenPosition(s, idx, entry_price, d) ==
    [s EXCEPT
        !.position =
            [shares |-> d.shares, entry_price |-> entry_price,
             entry_date |-> idx,
             stop_loss |-> (entry_price * (100 - cfg.rp.stop_pct)) \div 100,
             take_profit |-> (entry_price * (100 + cfg.rp.take_pct)) \div 100,
             highest_price |-> entry_price,
             invested_capital |-> d.capital_used,
             pending_exit |-> FALSE,
             partial_flags |-> [partial_20 |-> FALSE, partial_40 |-> FALSE]],
        !.cash = @ - d.capital_used,
        !.pending_entry_idx = None]

\* lines 159-163: zero shares, with the pending entry left in place
SkipEntry_KeepsPending(s, idx) ==
    [s EXCEPT !.warnings = Append(@, <<"entry_skipped", idx>>)]

\* lines 159-163: zero shares; the warning, the pending entry cleared
SkipEntry(s, idx) ==
    [s EXCEPT !.warnings = Append(@, <<"entry_skipped", idx>>),
              !.pending_entry_idx = None]

\* lines 131-163: the entry scheduled for this bar, at the adjusted open
EntryStep(s, idx, r) ==
    IF EntryDue(s, idx)
    THEN LET entry_price == _execute_entry_price(r.open)
             d == _determine_shares(s.cash, s.equity, entry_price,
                                    s.pending_entry_fraction, s.size_multiplier)
         IN IF d.shares > 0
            THEN OpenPosition(s, idx, entry_price, d)
            ELSE SkipEntry(s, idx)
    ELSE s

\* TrailingStep following the current high instead of the running maximum
TrailingStep_CurrentHigh(s, r) ==
    LET highest == r.high
        trailing_stop == (highest * (100 - cfg.rp.trailing_pct)) \div 100
    IN [s EXCEPT !.position.highest_price = highest,
                 !.position.stop_loss = IF trailing_stop > @ THEN trailing_stop ELSE @]

\* lines 166-171: highest price and trailing stop
TrailingStep(s, r) ==
    LET highest == IF r.high > s.position.highest_price
                   THEN r.high ELSE s.position.highest_price
        trailing_stop == (highest * (100 - cfg.rp.trailing_pct)) \div 100
    IN [s EXCEPT !.position.highest_price = highest,
                 !.position.stop_loss = IF trailing_stop > @ THEN trailing_stop ELSE @]

\* FullExitStep that tests the take-profit level before the stop
FullExitStep_TakeFirst(s, idx, r) ==
    IF r.high >= s.position.take_profit
    THEN LET c == _close_position(s, _execute_exit_price(s.position.take_profit),
                                  idx, "take_profit")
         IN AfterFullExit(c.s, c.pnl)
    ELSE IF r.low <= s.position.stop_loss
    THEN LET c == _close_position(s, _execute_exit_price(s.position.stop_loss),
                                  idx, "stop_loss")
         IN AfterFullExit(c.s, c.pnl)
    ELSE [s EXCEPT !.equity = s.cash + s.position.shares * r.close]

\* lines 184-213: stop loss, else take profit, else mark to close
FullExitStep(s, idx, r) ==
    IF r.low <= s.position.stop_loss
    THEN LET c == _close_position(s, _execute_exit_price(s.position.stop_loss),
                                  idx, "stop_loss")
         IN AfterFullExit(c.s, c.pnl)
    ELSE IF r.high >= s.position.take_profit
    THEN LET c == _close_position(s, _execute_exit_price(s.position.take_profit),
                                  idx, "take_profit")
         IN AfterFullExit(c.s, c.pnl)
    ELSE [s EXCEPT !.equity = s.cash + s.position.shares * r.close]

\* lines 165-215
ManageStep(s, idx, r) ==
    IF HasPosition(s)
    THEN LET p == _evaluate_partial_exits(TrailingStep(s, r), r.high, r.close, idx)
         IN IF p.closed
            THEN [p.s EXCEPT !.position = NoPosition, !.pending_exit_idx = None]
            ELSE FullExitStep(p.s, idx, r)
    ELSE [s EXCEPT !.equity = s.cash]

\* lines 217-219; "not pending_exit_idx" is true for None and for 0
ScheduleExitStep(s, idx, r) ==
    IF HasPosition(s) /\ s.pending_exit_idx \in {None, 0} /\ r.exit_signal
       /\ idx + 1 < cfg.len
    THEN [s EXCEPT !.pending_exit_idx = idx + 1, !.position.pending_exit = TRUE]
    ELSE s

\* ScheduleEntryStep without the i + 1 < len(dates) test
ScheduleEntryStep_PastEnd(s, idx, r) ==
    IF ~HasPosition(s) /\ s.pending_entry_idx = None /\ ~s.trading_halted
       /\ s.cooldown = 0 /\ r.entry_signal
    THEN [s EXCEPT !.pending_entry_idx = idx + 1,
                   !.pending_entry_fraction = _calculate_position_size(s)]
    ELSE s

\* max(0.0, min(1.0, fraction)) of line 231
Clamp01(f) == IF f[1] > f[2] THEN <<1, 1>> ELSE IF f[1] < 0 THEN <<0, 1>> ELSE f

\* lines 221-231
ScheduleEntryStep(s, idx, r) ==
    IF ~HasPosition(s) /\ s.pending_entry_idx = None /\ ~s.trading_halted
       /\ s.cooldown = 0 /\ idx + 1 < cfg.len /\ r.entry_signal
    THEN [s EXCEPT !.pending_entry_idx = idx + 1,
                   !.pending_entry_fraction = Clamp01(_calculate_position_size(s))]
    ELSE s

\* lines 233-236; a daily return is the pair <<equity - previous, previous>>
RecordStep(s) ==
    LET daily_return == IF s.previous_equity # 0
                        THEN <<s.equity - s.previous_equity, s.previous_equity>>
                        ELSE <<0, 1>>
    IN [s EXCEPT !.daily_returns = Append(@, daily_return),
                 !.equity_history = Append(@, s.equity),
                 !.previous_equity = s.equity]

\* lines 238-246; the return just recorded against -daily_loss_limit_pct
DailyLossStep(s, idx) ==
    LET dr == s.daily_returns[Len(s.daily_returns)]
    IN IF dr[1] * 100 <= (0 - cfg.rp.daily_loss_limit_pct) * dr[2]
          /\ cfg.rp.cooldown_days_after_loss > 0
       THEN [s EXCEPT !.cooldown = Max2(@, cfg.rp.cooldown_days_after_loss),
                      !.warnings = Append(@, <<"daily_loss", idx>>)]
       ELSE s

\* lines 248-257
ScaleDownStep(s, idx) ==
    IF ~s.scale_down_active /\ cfg.rp.scale_down_after_drawdown_pct > 0
       /\ s.equity * 100 <= cfg.initial_capital * (100 - cfg.rp.scale_down_after_drawdown_pct)
    THEN [s EXCEPT !.scale_down_active = TRUE,
                   !.size_multiplier = Frac(cfg.rp.scale_down_factor, 100),
                   !.warnings = Append(@, <<"scaled_down", idx>>)]
    ELSE s

\* lines 259-268
ConsecutiveLossStep(s, idx) ==
    IF s.consecutive_losses >= cfg.rp.max_consecutive_losses
       /\ cfg.rp.max_consecutive_losses > 0
    THEN [s EXCEPT !.cooldown = IF cfg.rp.cooldown_days_after_loss > 0
                                THEN Max2(@, cfg.rp.cooldown_days_after_loss) ELSE @,
                   !.warnings = Append(@, <<"consecutive_losses", idx>>),
                   !.consecutive_losses = 0]
    ELSE s

\* lines 270-271
CooldownStep(s) == IF s.cooldown > 0 THEN [s EXCEPT !.cooldown = @ - 1] ELSE s

\* one iteration of the loop for a bar with complete OHLC (lines 113-271)
BarBody(s, idx, r) ==
    LET s1 == HaltStep(s, idx)
        s2 == PendingExitStep(s1, idx, r)
        s3 == EntryStep(s2, idx, r)
        s4 == ManageStep(s3, idx, r)
        s5 == ScheduleExitStep(s4, idx, r)
        s6 == ScheduleEntryStep(s5, idx, r)
        s7 == RecordStep(s6)
        s8 == DailyLossStep(s7, idx)
        s9 == ScaleDownStep(s8, idx)
        s10 == ConsecutiveLossStep(s9, idx)
    IN CooldownStep(s10)

\* SkipBody that still runs the cooldown countdown of lines 270-271
SkipBody_CountsDown(s, idx) ==
    [s EXCEPT !.warnings = Append(@, <<"skipped", idx>>),
              !.equity_history = Append(@, s.equity),
              !.daily_returns = Append(@, <<0, 1>>),
              !.cooldown = IF @ > 0 THEN @ - 1 ELSE @]

\* lines 106-111: a bar with a NaN among open/high/low/close
SkipBody(s, idx) ==
    [s EXCEPT !.warnings = Append(@, <<"skipped", idx>>),
              !.equity_history = Append(@, s.equity),
              !.daily_returns = Append(@, <<0, 1>>)]

\* FinalExit that leaves the last equity-curve value as the loop recorded it
FinalExit_KeepsLastEquity(s, last) ==
    IF ~HasPosition(s) THEN s
    ELSE LET c == _close_position(s, _execute_exit_price(IF last.missing THEN 0 ELSE last.close),
                                  cfg.len - 1, "final_exit")
             cl == IF c.pnl > 0 THEN 0 ELSE c.s.consecutive_losses + 1
         IN [c.s EXCEPT !.consecutive_losses = cl,
                        !.max_consecutive_losses_observed = Max2(@, cl),
                        !.position = NoPosition]

\* lines 273-286: the forced exit at the last close.  A NaN close makes the
\* tick rounding of a Korean stock raise (int(nan)); without rounding the NaN
\* flows into the trade, the cash and the last equity value.
FinalExit(s, last) ==
    IF ~HasPosition(s) THEN s
    ELSE LET c == IF last.missing
                  THEN [s |-> [s EXCEPT
                                 !.cash = NaN, !.equity = NaN,
                                 !.trades = Append(@,
                                    [entry_date |-> s.position.entry_date,
                                     exit_date |-> cfg.len - 1,
                                     entry_price |-> s.position.entry_price,
                                     exit_price |-> NaN,
                                     shares |-> s.position.shares, pnl |-> NaN,
                                     exit_reason |-> "final_exit",
                                     holding_days |->
                                        _holding_days(s.position.entry_date, cfg.len - 1),
                                     partial |-> FALSE])],
                        pnl |-> NaN]
                  ELSE _close_position(s, _execute_exit_price(last.close),
                                       cfg.len - 1, "final_exit")
             cl == IF c.pnl # NaN /\ c.pnl > 0 THEN 0 ELSE c.s.consecutive_losses + 1
         IN [c.s EXCEPT !.consecutive_losses = cl,
                        !.max_consecutive_losses_observed = Max2(@, cl),
                        !.position = NoPosition,
                        !.equity_history[Len(c.s.equity_history)] = c.s.equity]

\* ------------------------------------------------------------------ inputs
Prices == {8, 10, 12}

\* OHLC bars in whole currency units
Bars == { <<o, Max2(o, c), Min2(o, c), c>> : o \in Prices, c \in Prices }
        \cup { <<10, 12, 8, 10>> }

Rows ==
    { [open |-> b[1] * Scale, high |-> b[2] * Scale, low |-> b[3] * Scale,
       close |-> b[4] * Scale, missing |-> FALSE,
       entry_signal |-> es, exit_signal |-> xs] :
         b \in Bars, es \in BOOLEAN, xs \in BOOLEAN }
    \cup
    { [open |-> NaN, high |-> NaN, low |-> NaN, close |-> NaN, missing |-> TRUE,
       entry_signal |-> es, exit_signal |-> xs] : es \in BOOLEAN, xs \in BOOLEAN }

NoRow == [open |-> 0, high |-> 0, low |-> 0, close |-> 0, missing |-> FALSE,
          entry_signal |-> FALSE, exit_signal |-> FALSE]

\* what a later bar still reads of a row: whether it was handled, and its signals
Signals(r) == [missing |-> r.missing, entry_signal |-> r.entry_signal,
               exit_signal |-> r.exit_signal]

\* RiskParams within the ranges of models/schemas.py
RiskA == [stop_pct |-> 10, take_pct |-> 1000, trailing_pct |-> 20,
          position_sizing |-> "equal_weight", max_risk_per_trade_pct |-> 100,
          max_portfolio_drawdown_pct |-> 5, daily_loss_limit_pct |-> 5,
          cooldown_days_after_loss |-> 0, max_consecutive_losses |-> 2,
          scale_down_after_drawdown_pct |-> 10, scale_down_factor |-> 50]

RiskB == [stop_pct |-> 8, take_pct |-> 20, trailing_pct |-> 10,
          position_sizing |-> "vol_target_10", max_risk_per_trade_pct |-> 100,
          max_portfolio_drawdown_pct |-> 30, daily_loss_limit_pct |-> 5,
          cooldown_days_after_loss |-> 2, max_consecutive_losses |-> 1,
          scale_down_after_drawdown_pct |-> 10, scale_down_factor |-> 50]

RiskC == [stop_pct |-> 10, take_pct |-> 1000, trailing_pct |-> 50,
          position_sizing |-> "equal_weight", max_risk_per_trade_pct |-> 1,
          max_portfolio_drawdown_pct |-> 90, daily_loss_limit_pct |-> 50,
          cooldown_days_after_loss |-> 1, max_consecutive_losses |-> 0,
          scale_down_after_drawdown_pct |-> 0, scale_down_factor |-> 100]

Configs ==
    { [initial_capital |-> 100 * Scale, is_korean_stock |-> TRUE,
       slippage_bps |-> 0, transaction_cost_bps |-> 0,
       rp |-> RiskA, vol_column |-> None, len |-> NumBars],
      [initial_capital |-> 100 * Scale, is_korean_stock |-> TRUE,
       slippage_bps |-> 50, transaction_cost_bps |-> 100,
       rp |-> RiskB, vol_column |-> 20, len |-> NumBars],
      [initial_capital |-> 100 * Scale, is_korean_stock |-> FALSE,
       slippage_bps |-> 0, transaction_cost_bps |-> 0,
       rp |-> RiskC, vol_column |-> None, len |-> NumBars] }

\* ------------------------------------------------------------- trading engine
LoopNames == {"monitor_market", "process_signals", "manage_positions", "risk_monitor"}

\* _get_watchlist (lines 650-653), cut down to two symbols
Symbols == {"A", "B"}

\* AutoTradingConfig (lines 81-111) with the environment of KoreaInvestmentAPI:
\* broker_api exists only in live mode (line 129) and is_enabled() is true
\* when the three KIS_* keys are set (broker_api.py lines 29-31)
EngineConfigs ==
    { [mode |-> "paper", broker_enabled |-> FALSE, max_positions |-> 1],
      [mode |-> "live", broker_enabled |-> FALSE, max_positions |-> 2],
      [mode |-> "live", broker_enabled |-> TRUE, max_positions |-> 2] }

\* total_capital * max_daily_loss (lines 86, 89): 10,000,000 * 0.05
DailyLossCeiling == 500000

\* pnl of a closed position, (filled_price - entry_price) * quantity: a loss
\* past the ceiling, a gain below it and a gain past it
PnlValues == {0 - 600000, 300000, 600000}

NoPos == 0

\* AutoTradingEngine.__init__ (lines 117-147).  active_positions maps a symbol
\* to the entry_time of its position (the number of the order that opened it),
\* NoPos when the symbol has no entry.  signals_ignored holds the symbols
\* logged at line 391, order_errors counts the records of line 500; closing holds the positions for which
\* _close_all_positions created a sell signal.
NewEngine(c) ==
    [exists |-> TRUE, is_running |-> FALSE, config |-> c,
     active_positions |-> [s \in Symbols |-> NoPos],
     signal_queue |-> << >>, signals_put |-> 0,
     pending_orders |-> << >>, trade_history |-> << >>, daily_pnl |-> 0,
     ws_clients |-> FALSE,
     signals_ignored |-> << >>, order_errors |-> 0, closing |-> {}]

\* module globals of trading_routes (lines 22-23) before any request, no
\* AutoTradingEngine constructed yet
EngineIdle ==
    /\ routes = [trading_engine |-> "None", is_running |-> FALSE,
                 task_pending |-> FALSE, emergency_calls |-> 0, response |-> "none"]
    /\ engine = [NewEngine(CHOOSE c \in EngineConfigs : c.mode = "paper" /\ c.max_positions = 1)
                    EXCEPT !.exists = FALSE]
    /\ calls = << >>

\* no library call made, no Monte Carlo run started
NoCall == [fn |-> "none"]

NoMonteCarlo == [status |-> "none"]

\* no PositionManager constructed
NoManager == [exists |-> FALSE]

LibIdle == call = NoCall /\ mc = NoMonteCarlo /\ pm = NoManager

\* ------------------------------------------------------------ backtest actions
Init ==
    /\ cfg \in Configs
    /\ pc = "loop"
    /\ i = 0
    /\ row = NoRow
    /\ prev_row = Signals(NoRow)
    /\ st = InitRun(cfg.initial_capital)
    /\ EngineIdle
    /\ LibIdle

\* one pass of the for loop over a bar with complete OHLC
Bar(r) ==
    /\ pc = "loop"
    /\ i < cfg.len
    /\ ~r.missing
    /\ st' = BarBody(st, i, r)
    /\ row' = r
    /\ prev_row' = Signals(row)
    /\ i' = i + 1
    /\ UNCHANGED <<cfg, pc, engVars, libVars>>

ProcessBar == \E r \in Rows : Bar(r)

\* one pass of the for loop over a bar with a NaN price
SkipBar ==
    /\ pc = "loop"
    /\ i < cfg.len
    /\ \E r \in Rows :
        /\ r.missing
        /\ row' = r
    /\ st' = SkipBody(st, i)
    /\ prev_row' = Signals(row)
    /\ i' = i + 1
    /\ UNCHANGED <<cfg, pc, engVars, libVars>>

\* the code after the loop, up to the return of run()
Finish ==
    /\ pc = "loop"
    /\ i = cfg.len
    /\ IF HasPosition(st) /\ row.missing /\ cfg.is_korean_stock
       THEN pc' = "error" /\ st' = st
       ELSE pc' = "done" /\ st' = FinalExit(st, row)
    /\ UNCHANGED <<cfg, i, row, prev_row, engVars, libVars>>

Next == ProcessBar \/ SkipBar \/ Finish

Spec == Init /\ [][Next]_vars

\* ------------------------------------------------- the flat 100-bar scenario
FlatLen == 100

FlatConfig ==
    [initial_capital |-> 100000 * Scale, is_korean_stock |-> TRUE,
     slippage_bps |-> 0, transaction_cost_bps |-> 0,
     rp |-> [stop_pct |-> 8, take_pct |-> 1000, trailing_pct |-> 10,
             position_sizing |-> "equal_weight", max_risk_per_trade_pct |-> 2,
             max_portfolio_drawdown_pct |-> 30, daily_loss_limit_pct |-> 5,
             cooldown_days_after_loss |-> 2, max_consecutive_losses |-> 3,
             scale_down_after_drawdown_pct |-> 10, scale_down_factor |-> 50],
     vol_column |-> None, len |-> FlatLen]

\* bar k of the series: 100 throughout, entry signal on bar 10, exit on bar 20
FlatRow(k) ==
    [open |-> 100 * Scale, high |-> 100 * Scale, low |-> 100 * Scale,
     close |-> 100 * Scale, missing |-> FALSE,
     entry_signal |-> (k = 10), exit_signal |-> (k = 20)]

InitFlat ==
    /\ cfg = FlatConfig
    /\ pc = "loop"
    /\ i = 0
    /\ row = NoRow
    /\ prev_row = Signals(NoRow)
    /\ st = InitRun(cfg.initial_capital)
    /\ EngineIdle
    /\ LibIdle

FlatBar == Bar(FlatRow(i))

NextFlat == FlatBar \/ Finish

SpecFlat == InitFlat /\ [][NextFlat]_vars

\* ------------------------------------------------------- trading engine steps
MaxEmergencyCalls == 2

\* signals a producer may put on signal_queue in one run (the sell signals
\* of _close_all_positions are not counted: one per open position and stop)
MaxSignals == 2

AllRunning == [k \in LoopNames |-> "running"]

NoTasks == [k \in LoopNames |-> "none"]

OpenSymbols(e) == {s \in Symbols : e.active_positions[s] # NoPos}

\* TradingSignal (lines 49-61): symbol, action and strategy_name
Signal(s, a, strat) == [symbol |-> s, action |-> a, strategy |-> strat]

Abs(x) == IF x < 0 THEN 0 - x ELSE x

\* abs(self.daily_pnl) > total_capital * max_daily_loss (lines 544, 662)
DailyLossExceeded(e) == Abs(e.daily_pnl) > DailyLossCeiling

\* variant of the position-count test that admits one position too many
_check_risk_limits_Above(e) ==
    /\ ~(Cardinality(OpenSymbols(e)) > e.config.max_positions)
    /\ ~DailyLossExceeded(e)

\* _check_risk_limits (lines 655-665)
_check_risk_limits(e) ==
    /\ ~(Cardinality(OpenSymbols(e)) >= e.config.max_positions)
    /\ ~DailyLossExceeded(e)

\* _execute_order (lines 411-501).  With a live, enabled broker the call of
\* broker_api.buy_stock / sell_stock (lines 433, 439) raises AttributeError,
\* KoreaInvestmentAPI defining neither: the except clause of line 499 logs
\* and returns None, and the order built at line 416 is dropped.  Otherwise
\* the order is filled by the simulation branch (lines 454-460); pnl is the
\* outcome of the random slippage.
_execute_order(e, signal, pnl) ==
    IF e.config.mode = "live" /\ e.config.broker_enabled
    THEN [e EXCEPT !.order_errors = @ + 1]
    ELSE LET n == Len(e.pending_orders) + 1
             order == [symbol |-> signal.symbol,
                       side |-> IF signal.action = "buy" THEN "buy" ELSE "sell",
                       status |-> "filled"]
             e1 == IF signal.action = "buy"
                   THEN [e EXCEPT !.active_positions[signal.symbol] = n]
                   ELSE IF e.active_positions[signal.symbol] # NoPos
                        THEN [e EXCEPT !.daily_pnl = @ + pnl,
                                       !.trade_history =
                                           Append(@, [symbol |-> signal.symbol, pnl |-> pnl]),
                                       !.active_positions[signal.symbol] = NoPos]
                        ELSE e
         IN [e1 EXCEPT !.pending_orders = Append(@, order)]

\* the open symbols in dict order, which is the order of insertion
RECURSIVE SymbolsByEntry(_, _)
SymbolsByEntry(e, S) ==
    IF S = {} THEN << >>
    ELSE LET s == CHOOSE x \in S : \A y \in S : e.active_positions[x] <= e.active_positions[y]
         IN <<s>> \o SymbolsByEntry(e, S \ {s})

\* _close_all_positions (lines 618-633): one sell signal per entry of
\* active_positions; put() on the unbounded queue does not suspend
_close_all_positions(e) ==
    LET syms == SymbolsByEntry(e, OpenSymbols(e))
    IN [e EXCEPT !.signal_queue = @ \o [j \in 1..Len(syms) |-> Signal(syms[j], "sell", "system")],
                 !.closing = @ \cup {e.active_positions[x] : x \in OpenSymbols(e)}]

\* AutoTradingEngine.stop (lines 173-180): there is no close_positions
\* parameter, liquidation is requested by the mode being live
stop(e) ==
    IF e.config.mode = "live"
    THEN _close_all_positions([e EXCEPT !.is_running = FALSE])
    ELSE [e EXCEPT !.is_running = FALSE]

\* POST /trading/start (trading_routes.py lines 101-186): builds the engine and
\* queues run_engine as a background task.  One engine object is modelled, so
\* the request is taken while none has been built.
StartTrading ==
    /\ ~engine.exists
    /\ ~routes.is_running
    /\ routes' = [routes EXCEPT !.trading_engine = "engine", !.task_pending = TRUE]
    /\ \E c \in EngineConfigs : engine' = NewEngine(c)
    /\ UNCHANGED <<calls, btVars, libVars>>

\* run_engine (lines 153-160): sets the flag and calls
\* _trading_engine.start(symbols=...).  start(self) takes no symbols argument,
\* so the call raises TypeError before any coroutine runs and the except
\* clause clears the flag again; no await is reached in between.
RunEngine ==
    /\ routes.task_pending
    /\ routes' = [routes EXCEPT !.task_pending = FALSE, !.is_running = FALSE]
    /\ UNCHANGED <<engine, calls, btVars, libVars>>

\* AutoTradingEngine.start() (lines 149-167) awaited by the owner of the engine:
\* returns at once when already running, else creates the four loop tasks
EngineStart ==
    /\ engine.exists
    /\ Len(calls) < MaxStarts
    /\ IF engine.is_running
       THEN calls' = Append(calls, [state |-> "returned", tasks |-> NoTasks,
                                    iter_size |-> 0, iter_left |-> 0])
            /\ UNCHANGED engine
       ELSE /\ engine' = [engine EXCEPT !.is_running = TRUE]
            /\ calls' = Append(calls, [state |-> "gathering", tasks |-> AllRunning,
                                       iter_size |-> 0, iter_left |-> 0])
    /\ UNCHANGED <<routes, btVars, libVars>>

\* add_websocket_client (lines 682-684): from then on _broadcast_to_clients
\* awaits client.send and can suspend its caller
AddWebsocketClient ==
    /\ engine.exists
    /\ ~engine.ws_clients
    /\ engine' = [engine EXCEPT !.ws_clients = TRUE]
    /\ UNCHANGED <<routes, calls, btVars, libVars>>

\* a TradingSignal for a buy is put on signal_queue.  _check_entry_signal
\* itself cannot return one (its BacktestEngine(symbols=...) call at line 250
\* raises TypeError, swallowed at lines 231-233), so buys are those a producer
\* outside the four loops puts on the queue.  The symbols being
\* interchangeable, the first signal of a run is taken to be for "A".
PutSignal(s) ==
    /\ engine.exists
    /\ engine.signals_put < MaxSignals
    /\ (engine.signals_put = 0 => s = "A")
    /\ engine' = [engine EXCEPT !.signal_queue = Append(@, Signal(s, "buy", "external")),
                                !.signals_put = @ + 1]
    /\ UNCHANGED <<routes, calls, btVars, libVars>>

\* one iteration of _monitor_market (lines 184-211); fetch_realtime_data has
\* no await inside, so the iteration runs without suspension.  For a symbol
\* with a position _check_exit_signal returns a sell for every enabled
\* strategy when the price is past stop_loss or take_profit, and for "custom"
\* alone when only the trailing stop is hit.
MonitorMarket(c) ==
    /\ c \in 1..Len(calls)
    /\ calls[c].tasks["monitor_market"] = "running"
    /\ engine.is_running
    /\ \E s \in OpenSymbols(engine) :
       \E strategies \in {<<"custom">>, <<"buffett", "lynch", "custom">>} :
          /\ engine.signals_put + Len(strategies) <= MaxSignals
          /\ engine' = [engine EXCEPT
                          !.signal_queue = @ \o [j \in 1..Len(strategies) |->
                                                    Signal(s, "sell", strategies[j])],
                          !.signals_put = @ + Len(strategies)]
    /\ UNCHANGED <<routes, calls, btVars, libVars>>

\* one iteration of _process_signals (lines 382-409) that dequeued a signal:
\* risk check, then _execute_order.  With a websocket client registered the
\* task then suspends in _broadcast_to_clients (line 401); otherwise it reads
\* the loop condition at once and is back in signal_queue.get() or has left.
ProcessSignal(c) ==
    /\ c \in 1..Len(calls)
    /\ calls[c].tasks["process_signals"] = "running"
    /\ engine.signal_queue # << >>
    /\ LET signal == Head(engine.signal_queue)
           e0 == [engine EXCEPT !.signal_queue = Tail(@)]
           ordered == _check_risk_limits(e0)
                        /\ ~(e0.config.mode = "live" /\ e0.config.broker_enabled)
       IN /\ \E pnl \in PnlValues :
                engine' = IF ~_check_risk_limits(e0)
                          THEN [e0 EXCEPT !.signals_ignored = Append(@, signal.symbol)]
                          ELSE _execute_order(e0, signal, pnl)
          /\ calls' = [calls EXCEPT ![c].tasks["process_signals"] =
                          IF ordered /\ engine.ws_clients THEN "broadcasting"
                          ELSE IF engine.is_running THEN "running" ELSE "done"]
    /\ UNCHANGED <<routes, btVars, libVars>>

\* the broadcast of line 401 returns and the loop condition is read
ProcessResume(c) ==
    /\ c \in 1..Len(calls)
    /\ calls[c].tasks["process_signals"] = "broadcasting"
    /\ calls' = [calls EXCEPT ![c].tasks["process_signals"] =
                    IF engine.is_running THEN "running" ELSE "done"]
    /\ UNCHANGED <<routes, engine, btVars, libVars>>

\* _manage_positions (lines 505-531) starts "for symbol, position in
\* self.active_positions.items()" and, a websocket client being registered,
\* suspends in _broadcast_to_clients (line 528) after the first entry
ManageStart(c) ==
    /\ c \in 1..Len(calls)
    /\ calls[c].tasks["manage_positions"] = "running"
    /\ engine.is_running
    /\ engine.ws_clients
    /\ OpenSymbols(engine) # {}
    /\ calls' = [calls EXCEPT ![c].tasks["manage_positions"] = "iterating",
                              ![c].iter_size = Cardinality(OpenSymbols(engine)),
                              ![c].iter_left = Cardinality(OpenSymbols(engine)) - 1]
    /\ UNCHANGED <<routes, engine, btVars, libVars>>

\* the broadcast returns and the for loop asks the dict iterator for the next
\* entry: RuntimeError when the dict changed size (caught at line 535), the
\* next entry and another broadcast, or the end of the loop and the sleep
ManageResume(c) ==
    /\ c \in 1..Len(calls)
    /\ calls[c].tasks["manage_positions"] = "iterating"
    /\ IF Cardinality(OpenSymbols(engine)) # calls[c].iter_size \/ calls[c].iter_left = 0
       THEN calls' = [calls EXCEPT ![c].tasks["manage_positions"] = "running",
                                   ![c].iter_size = 0, ![c].iter_left = 0]
       ELSE calls' = [calls EXCEPT ![c].iter_left = @ - 1]
    /\ UNCHANGED <<routes, engine, btVars, libVars>>

\* variant in which the signal processor never reads the flag at its loop head
LoopExit_ProcessorIgnoresFlag(c, k) ==
    /\ c \in 1..Len(calls)
    /\ k # "process_signals"
    /\ calls[c].tasks[k] = "running"
    /\ ~engine.is_running
    /\ calls' = [calls EXCEPT ![c].tasks[k] = "done"]
    /\ UNCHANGED <<routes, engine, btVars, libVars>>

\* a loop task evaluates "while self.is_running" (lines 184, 382, 505, 541)
\* and leaves when the flag is false; the signal processor reaches its loop
\* head from signal_queue.get() by the timeout, the queue being empty
LoopExit(c, k) ==
    /\ c \in 1..Len(calls)
    /\ calls[c].tasks[k] = "running"
    /\ ~engine.is_running
    /\ (k = "process_signals" => engine.signal_queue = << >>)
    /\ calls' = [calls EXCEPT ![c].tasks[k] = "done"]
    /\ UNCHANGED <<routes, engine, btVars, libVars>>

\* _risk_monitor (lines 543-547): the daily loss limit is reached inside the
\* loop, the task awaits self.stop() and breaks
RiskTrip(c) ==
    /\ c \in 1..Len(calls)
    /\ calls[c].tasks["risk_monitor"] = "running"
    /\ engine.is_running
    /\ DailyLossExceeded(engine)
    /\ engine' = stop(engine)
    /\ calls' = [calls EXCEPT ![c].tasks["risk_monitor"] = "done"]
    /\ UNCHANGED <<routes, btVars, libVars>>

\* _risk_monitor (lines 549-566) with _reduce_exposure (lines 586-616): the
\* portfolio risk level is EXTREME and a sell signal is put for the position
\* with the lowest pnl (int(n * 0.2) or 1 is one position)
ReduceExposure(c) ==
    /\ c \in 1..Len(calls)
    /\ calls[c].tasks["risk_monitor"] = "running"
    /\ engine.is_running
    /\ ~DailyLossExceeded(engine)
    /\ engine.signals_put < MaxSignals
    /\ \E s \in OpenSymbols(engine) :
          engine' = [engine EXCEPT
                        !.signal_queue = Append(@, Signal(s, "sell", "risk_management")),
                        !.signals_put = @ + 1]
    /\ UNCHANGED <<routes, calls, btVars, libVars>>

\* asyncio.gather returns when the four tasks are done; finally: is_running = False
GatherReturn(c) ==
    /\ c \in 1..Len(calls)
    /\ calls[c].state = "gathering"
    /\ \A k \in LoopNames : calls[c].tasks[k] = "done"
    /\ calls' = [calls EXCEPT ![c].state = "returned"]
    /\ engine' = [engine EXCEPT !.is_running = FALSE]
    /\ UNCHANGED <<routes, btVars, libVars>>

\* AutoTradingEngine.stop() (lines 173-180), called on a running engine
EngineStop ==
    /\ engine.exists
    /\ engine.is_running
    /\ engine' = stop(engine)
    /\ UNCHANGED <<routes, calls, btVars, libVars>>

\* POST /trading/emergency-stop (lines 341-383).  AutoTradingEngine has no
\* emergency_stop method: past the guard the call raises AttributeError and
\* the except clause clears the two module globals.
EmergencyStop ==
    /\ routes.emergency_calls < MaxEmergencyCalls
    /\ IF ~routes.is_running \/ routes.trading_engine = "None"
       THEN routes' = [routes EXCEPT !.emergency_calls = @ + 1,
                                     !.response = "already_stopped"]
       ELSE routes' = [routes EXCEPT !.emergency_calls = @ + 1,
                                     !.trading_engine = "None",
                                     !.is_running = FALSE,
                                     !.response = "http_500"]
    /\ UNCHANGED <<engine, calls, btVars, libVars>>

InitEngine ==
    /\ cfg = FlatConfig
    /\ pc = "done"
    /\ i = 0
    /\ row = NoRow
    /\ prev_row = Signals(NoRow)
    /\ st = InitRun(cfg.initial_capital)
    /\ EngineIdle
    /\ LibIdle

NextEngine ==
    \/ StartTrading
    \/ RunEngine
    \/ EngineStart
    \/ \E c \in 1..MaxStarts : \E k \in LoopNames : LoopExit(c, k)
    \/ \E c \in 1..MaxStarts : GatherReturn(c)
    \/ EngineStop
    \/ EmergencyStop

SpecEngine == InitEngine /\ [][NextEngine]_vars

\* an engine built by the websocket command start_trading (websocket_api.py
\* lines 149-160), which creates the task trading_engine.start(); the
\* trading_routes globals stay untouched
InitTrading ==
    /\ cfg = FlatConfig
    /\ pc = "done"
    /\ i = 0
    /\ row = NoRow
    /\ prev_row = Signals(NoRow)
    /\ st = InitRun(cfg.initial_capital)
    /\ routes = [trading_engine |-> "None", is_running |-> FALSE,
                 task_pending |-> FALSE, emergency_calls |-> 0, response |-> "none"]
    /\ engine \in {NewEngine(c) : c \in EngineConfigs}
    /\ calls = << >>
    /\ LibIdle

LoopStep(c) ==
    \/ \E k \in LoopNames : LoopExit(c, k)
    \/ MonitorMarket(c)
    \/ ProcessSignal(c)
    \/ ProcessResume(c)
    \/ ManageStart(c)
    \/ ManageResume(c)
    \/ RiskTrip(c)
    \/ ReduceExposure(c)
    \/ GatherReturn(c)

NextTrading ==
    \/ EngineStart
    \/ AddWebsocketClient
    \/ \E s \in Symbols : PutSignal(s)
    \/ \E c \in 1..MaxStarts : LoopStep(c)
    \/ EngineStop

SpecTrading == InitTrading /\ [][NextTrading]_vars

\* every loop task that is ready to run is eventually run by the event loop,
\* every sleep, queue timeout and client.send eventually returns
TradingFairness ==
    \A c \in 1..MaxStarts :
        /\ \A k \in LoopNames : WF_vars(LoopExit(c, k))
        /\ WF_vars(ProcessSignal(c))
        /\ WF_vars(ProcessResume(c))
        /\ WF_vars(ManageResume(c))
        /\ WF_vars(GatherReturn(c))

SpecTradingLive == InitTrading /\ [][NextTrading]_vars /\ TradingFairness

LoopsActive ==
    \E c \in 1..Len(calls) : \E k \in LoopNames : calls[c].tasks[k] \in {"running", "iterating", "broadcasting"}

\* ------------------------------------------- run() called twice on one engine
RerunLen == 3         \* len(self.data) of the runs of SpecRerun

\* rows of the data of SpecRerun: every bar of Rows and the NaN bar, with the
\* entry signal set and the exit signal clear
RerunRows == {r \in Rows : r.entry_signal /\ ~r.exit_signal}

RerunConfigs == {[c EXCEPT !.len = RerunLen] : c \in Configs}

\* what a caller reads after run(): self.trades, self.warnings and the
\* equity curve
Outcome(s) == [trades |-> s.trades, warnings |-> s.warnings,
               equity_history |-> s.equity_history]

\* BacktestEngine.__init__ (lines 41-66) over a data frame, and the first
\* call of run() up to line 97
InitRerun ==
    /\ cfg \in RerunConfigs
    /\ pc = "loop"
    /\ i = 0
    /\ row = NoRow
    /\ prev_row = Signals(NoRow)
    /\ st = InitRun(cfg.initial_capital)
    /\ EngineIdle
    /\ mc = NoMonteCarlo
    /\ pm = NoManager
    /\ \E data \in [1..RerunLen -> RerunRows] :
          call = [fn |-> "run", data |-> data, runs |-> 1, first |-> Outcome(st)]

\* one pass of the for loop over self.data.iloc[i]
DataBar ==
    /\ call.fn = "run"
    /\ pc = "loop"
    /\ i < cfg.len
    /\ LET r == call.data[i + 1]
       IN /\ st' = IF r.missing THEN SkipBody(st, i) ELSE BarBody(st, i, r)
          /\ row' = r
    /\ prev_row' = Signals(row)
    /\ i' = i + 1
    /\ UNCHANGED <<cfg, pc, engVars, libVars>>

\* the second call of run() on the same engine, up to line 97: lines 75-92
\* set the locals and self.daily_returns anew; self.trades and self.warnings
\* are assigned in __init__ only (lines 57, 61) and keep what the first call
\* appended
Rerun ==
    /\ call.fn = "run"
    /\ call.runs = 1
    /\ pc = "done"
    /\ call' = [call EXCEPT !.runs = 2, !.first = Outcome(st)]
    /\ st' = [InitRun(cfg.initial_capital) EXCEPT !.trades = st.trades,
                                                  !.warnings = st.warnings]
    /\ pc' = "loop"
    /\ i' = 0
    /\ row' = NoRow
    /\ prev_row' = Signals(NoRow)
    /\ UNCHANGED <<cfg, engVars, mc, pm>>

NextRerun == DataBar \/ Finish \/ Rerun

SpecRerun == InitRerun /\ [][NextRerun]_vars

\* =========================================================================
\* Library functions
\* =========================================================================
\* the backtest and the trading engine at rest while a library function runs
BacktestIdle ==
    /\ cfg = FlatConfig
    /\ pc = "done"
    /\ i = 0
    /\ row = NoRow
    /\ prev_row = Signals(NoRow)
    /\ st = InitRun(cfg.initial_capital)

\* ------------------------------------------------ MonteCarloSimulator.run
MaxRuns == 4          \* largest n_runs of the runs of SpecMonteCarlo

\* block_size of _block_bootstrap
BlockSize == 20

\* len(self.data)
DataLengths == {10, 20, 21, 40, 60}

\* _block_bootstrap (lines 109-113): np.random.randint(0, n - block_size,
\* size=n // block_size) raises ValueError (low >= high) for n = block_size.
\* For n < block_size the size is 0: randint raises where it tests its limits
\* first (checks_limits_first) and returns an empty array where it tests the
\* size first, by numpy version.
BootstrapFails(n, checks_limits_first) ==
    \/ n = BlockSize
    \/ n < BlockSize /\ checks_limits_first

InitMonteCarlo ==
    /\ BacktestIdle
    /\ EngineIdle
    /\ call = NoCall
    /\ pm = NoManager
    /\ \E n \in DataLengths : \E r \in 0..MaxRuns : \E lim \in BOOLEAN :
          mc = [status |-> "loop", n |-> n, n_runs |-> r, i |-> 0,
                checks_limits_first |-> lim,
                cagr_distribution |-> 0, failed |-> 0, runs |-> None]

\* one pass of the for loop (lines 47-74); cagr_distribution is kept by its
\* length.  The resampling of lines 49-53 stands before the try statement:
\* its exception leaves run().  An exception of the backtest (lines 56-70)
\* is skipped by the except clause.
McIteration(backtest_ok) ==
    /\ mc.status = "loop"
    /\ mc.i < mc.n_runs
    /\ mc' = IF BootstrapFails(mc.n, mc.checks_limits_first)
             THEN [mc EXCEPT !.status = "raised", !.failed = @ + 1]
             ELSE IF backtest_ok
                  THEN [mc EXCEPT !.i = @ + 1, !.cagr_distribution = @ + 1]
                  ELSE [mc EXCEPT !.i = @ + 1, !.failed = @ + 1]
    /\ UNCHANGED <<btVars, engVars, call, pm>>

\* lines 76-92: percentiles and MonteCarloResult(runs=len(cagr_distribution)).
\* np.percentile of an empty array returns nan or raises, by numpy version.
McFinish(percentile_ok) ==
    /\ mc.status = "loop"
    /\ mc.i = mc.n_runs
    /\ mc' = IF mc.cagr_distribution = 0 /\ ~percentile_ok
             THEN [mc EXCEPT !.status = "raised"]
             ELSE [mc EXCEPT !.status = "returned", !.runs = mc.cagr_distribution]
    /\ UNCHANGED <<btVars, engVars, call, pm>>

NextMonteCarlo ==
    \/ \E ok \in BOOLEAN : McIteration(ok)
    \/ \E ok \in BOOLEAN : McFinish(ok)

SpecMonteCarlo == InitMonteCarlo /\ [][NextMonteCarlo]_vars

\* --------------------------------------- StrategyParser.evaluate_condition
NumDates == 2         \* rows of the indicator table

Dates == 1..NumDates

\* A condition string is held as its clauses and connectives in order, each
\* with what the scanning code finds in its text: the substrings tested with
\* "in" (lines 71, 105, 118, 123), the thresholds matched by the two RSI
\* patterns (lines 87, 95), the event and window matched by the WITHIN
\* pattern (line 125), and the indicators it names.
Token(text, substrings, less, greater, within, names) ==
    [text |-> text, substrings |-> substrings, rsi_less |-> less,
     rsi_greater |-> greater, within |-> within, indicators |-> names]

Word(text) == Token(text, {}, << >>, << >>, << >>, {})

T_CrossUp == Token("MACD.cross_up == true", {"MACD", "cross_up"}, << >>, << >>, << >>, {"MACD"})
T_CrossDown == Token("MACD.cross_down == true", {"MACD", "cross_down"}, << >>, << >>, << >>, {"MACD"})
T_RsiLess == Token("RSI < 30", {}, <<30>>, << >>, << >>, {"RSI"})
T_RsiGreater == Token("RSI > 50", {}, << >>, <<50>>, << >>, {"RSI"})
T_RsiAtMost == Token("RSI <= 30", {}, << >>, << >>, << >>, {"RSI"})
T_Di == Token("+DI > -DI", {"+DI > -DI"}, << >>, << >>, << >>, {"DI"})
T_Adx == Token("ADX > 25", {}, << >>, << >>, << >>, {"ADX"})
T_Within == Token("WITHIN(event='ELECTION', window_days=0)", {"WITHIN"}, << >>, << >>,
                  <<[event |-> "ELECTION", window_days |-> 0]>>, {})

Conditions ==
    { <<T_CrossUp, Word("AND"), T_RsiLess>>,
      <<T_RsiLess, Word("OR"), T_RsiGreater>>,
      <<Word("("), T_CrossUp, Word("OR"), T_Di, Word(")"), Word("AND"), T_RsiGreater>>,
      <<T_CrossDown, Word("OR"), T_Di>>,
      <<T_RsiAtMost>>,
      <<T_Adx>>,
      <<T_RsiLess, Word("AND"), T_Within>>,
      << >> }

\* column sets of the indicator table
ColumnSets ==
    { {"MACD", "MACD_signal", "RSI", "DI_plus", "DI_minus"},
      {"MACD", "MACD_signal", "DI_plus", "DI_minus"},
      {"MACD", "RSI", "DI_plus", "DI_minus"},
      {"MACD_signal", "RSI", "DI_plus"},
      {"RSI"},
      {} }

\* indicator tables: MACD and DI_plus move around a signal / DI_minus line
\* held at 1, RSI is 20 or 60
IndicatorTables ==
    { [columns |-> c, MACD |-> m, MACD_signal |-> [d \in Dates |-> 1], RSI |-> r,
       DI_plus |-> p, DI_minus |-> [d \in Dates |-> 1]] :
         c \in ColumnSets, m \in [Dates -> {0, 2}], r \in [Dates -> {20, 60}],
         p \in [Dates -> {0, 2}] }

\* events argument: None, a table without the ELECTION column, a table whose
\* ELECTION column is true on the first date
EventTables ==
    { [given |-> FALSE, columns |-> {}, dates |-> {}],
      [given |-> TRUE, columns |-> {}, dates |-> {}],
      [given |-> TRUE, columns |-> {"ELECTION"}, dates |-> {1}] }

Contains(condition, substring) ==
    \E j \in 1..Len(condition) : substring \in condition[j].substrings

RECURSIVE Matches(_, _)
Matches(condition, field) ==
    IF condition = << >> THEN << >>
    ELSE Head(condition)[field] \o Matches(Tail(condition), field)

\* variant of "result &= clause" that combines with OR
AndInto_Or(result, clause) == [d \in Dates |-> result[d] \/ clause[d]]

\* result &= clause
AndInto(result, clause) == [d \in Dates |-> result[d] /\ clause[d]]

\* shift(1) leaves NaN on the first row, and a comparison with NaN is False
cross_up(t) ==
    [d \in Dates |-> /\ t.MACD[d] > t.MACD_signal[d]
                     /\ d > 1
                     /\ t.MACD[d - 1] <= t.MACD_signal[d - 1]]

cross_down(t) ==
    [d \in Dates |-> /\ t.MACD[d] < t.MACD_signal[d]
                     /\ d > 1
                     /\ t.MACD[d - 1] >= t.MACD_signal[d - 1]]

rsi_less(t, threshold) == [d \in Dates |-> t.RSI[d] < threshold]

rsi_greater(t, threshold) == [d \in Dates |-> t.RSI[d] > threshold]

di_above(t) == [d \in Dates |-> t.DI_plus[d] > t.DI_minus[d]]

\* _apply_event_window (lines 152-172)
_apply_event_window(events, event_name, window_days) ==
    IF ~events.given \/ event_name \notin events.columns
    THEN [d \in Dates |-> FALSE]
    ELSE [d \in Dates |-> \E e \in events.dates : e - window_days <= d /\ d <= e + window_days]

RECURSIVE AndAll(_, _, _, _)
AndAll(result, thresholds, t, less) ==
    IF thresholds = << >> THEN result
    ELSE AndAll(AndInto(result, IF less THEN rsi_less(t, Head(thresholds))
                                ELSE rsi_greater(t, Head(thresholds))),
                Tail(thresholds), t, less)

\* evaluate_condition (lines 45-150).  Every column access is guarded by a
\* membership test, so no KeyError arises and the except clauses of lines
\* 141-150 are not entered for these tables.
evaluate_condition(condition, t, events) ==
    LET r0 == [d \in Dates |-> TRUE]
        r1 == IF Contains(condition, "MACD") /\ Contains(condition, "cross_up")
                 /\ "MACD" \in t.columns /\ "MACD_signal" \in t.columns
              THEN AndInto(r0, cross_up(t)) ELSE r0
        r2 == IF "RSI" \in t.columns
              THEN AndAll(AndAll(r1, Matches(condition, "rsi_less"), t, TRUE),
                          Matches(condition, "rsi_greater"), t, FALSE)
              ELSE r1
        r3 == IF Contains(condition, "MACD") /\ Contains(condition, "cross_down")
                 /\ "MACD" \in t.columns /\ "MACD_signal" \in t.columns
              THEN AndInto(r2, cross_down(t)) ELSE r2
        r4 == IF Contains(condition, "+DI > -DI")
                 /\ "DI_plus" \in t.columns /\ "DI_minus" \in t.columns
              THEN AndInto(r3, di_above(t)) ELSE r3
        w == Matches(condition, "within")
        r5 == IF Contains(condition, "WITHIN") /\ events.given /\ w # << >>
              THEN AndInto(r4, _apply_event_window(events, w[1].event, w[1].window_days))
              ELSE r4
    IN [kind |-> "timeline", values |-> r5]

InitParser ==
    /\ BacktestIdle
    /\ EngineIdle
    /\ mc = NoMonteCarlo
    /\ pm = NoManager
    /\ \E c \in Conditions : \E t \in IndicatorTables : \E e \in EventTables :
          call = [fn |-> "evaluate_condition", condition |-> c, indicators |-> t,
                  events |-> e, result |-> [kind |-> "pending"]]

Evaluate ==
    /\ call.fn = "evaluate_condition"
    /\ call.result.kind = "pending"
    /\ call' = [call EXCEPT !.result = evaluate_condition(call.condition, call.indicators,
                                                           call.events)]
    /\ UNCHANGED <<btVars, engVars, mc, pm>>

NextParser == Evaluate

SpecParser == InitParser /\ [][NextParser]_vars

\* ----------------------------------------------------------- tick rounding
\* KRW prices handed to the rounder
TickPrices == 1190..1260

InitTick ==
    /\ BacktestIdle
    /\ EngineIdle
    /\ mc = NoMonteCarlo
    /\ pm = NoManager
    /\ \E p \in TickPrices : call = [fn |-> "round_to_tick", price |-> p,
                                     up |-> None, down |-> None]

\* round_to_tick_up(price, True) and round_to_tick_down(price, True)
RoundToTick ==
    /\ call.fn = "round_to_tick"
    /\ call.up = None
    /\ call' = [call EXCEPT !.up = round_to_tick_up(call.price * Scale, 1, TRUE) \div Scale,
                            !.down = round_to_tick_down(call.price * Scale, 1, TRUE) \div Scale]
    /\ UNCHANGED <<btVars, engVars, mc, pm>>

NextTick == RoundToTick

SpecTick == InitTick /\ [][NextTick]_vars

\* ------------------------------ AdvancedRiskManager._calculate_kelly_criterion
\* win_rate and win_loss_ratio in hundredths, NaN for float('nan')
WinRates == {0 - 50, 0, 10, 25, 40, 50, 60, 75, 90, 100, 150, NaN}

WinLossRatios == {0 - 100, 0, 1, 50, 100, 150, 200, 300, 1000, NaN}

\* the float nan among the fractions <<n, d>>
NaNFrac == <<0, 0>>

IsNaN(x) == x[2] = 0

\* the built-ins min(a, b) and max(a, b) on fractions <<n, d>> with d > 0:
\* they return a unless b < a (b > a), and every comparison with nan is False
Less(a, b) == ~IsNaN(a) /\ ~IsNaN(b) /\ a[1] * b[2] < b[1] * a[2]

PyMin(a, b) == IF Less(b, a) THEN b ELSE a

PyMax(a, b) == IF Less(a, b) THEN b ELSE a

\* (p * b - q) / b with p = win_rate / 100, b = win_loss_ratio / 100, q = 1 - p
KellyFormula(win_rate, win_loss_ratio) ==
    IF win_rate = NaN \/ win_loss_ratio = NaN THEN NaNFrac
    ELSE Frac(win_rate * win_loss_ratio - 100 * (100 - win_rate), 100 * win_loss_ratio)

\* variant without the upper limit of 0.25
_calculate_kelly_criterion_Uncapped(win_rate, win_loss_ratio) ==
    IF win_loss_ratio # NaN /\ win_loss_ratio <= 0 THEN <<0, 1>>
    ELSE PyMax(<<0, 1>>, KellyFormula(win_rate, win_loss_ratio))

\* _calculate_kelly_criterion (lines 275-285); "nan <= 0" is False
_calculate_kelly_criterion(win_rate, win_loss_ratio) ==
    IF win_loss_ratio # NaN /\ win_loss_ratio <= 0 THEN <<0, 1>>
    ELSE PyMax(<<0, 1>>, PyMin(KellyFormula(win_rate, win_loss_ratio), <<1, 4>>))

InitKelly ==
    /\ BacktestIdle
    /\ EngineIdle
    /\ mc = NoMonteCarlo
    /\ pm = NoManager
    /\ \E p \in WinRates : \E b \in WinLossRatios :
          call = [fn |-> "_calculate_kelly_criterion", win_rate |-> p,
                  win_loss_ratio |-> b, returned |-> FALSE, result |-> <<0, 1>>]

Kelly ==
    /\ call.fn = "_calculate_kelly_criterion"
    /\ ~call.returned
    /\ call' = [call EXCEPT !.returned = TRUE,
                            !.result = _calculate_kelly_criterion(call.win_rate,
                                                                  call.win_loss_ratio)]
    /\ UNCHANGED <<btVars, engVars, mc, pm>>

NextKelly == Kelly

SpecKelly == InitKelly /\ [][NextKelly]_vars

\* ------------------------------------------------------- PositionManager
MaxCalls == 3         \* open_position / close_position calls on one manager

\* PositionManager.__init__ arguments in whole currency units, with the
\* environment of the broker: is_enabled() is true when the KIS keys are set
ManagerConfigs ==
    { [initial_capital |-> 100, max_position_size_pct |-> 20, max_positions |-> m,
       broker_enabled |-> b] : m \in {1, 2}, b \in BOOLEAN }

\* no entry for the symbol in self.positions
NoHolding == [held |-> FALSE, quantity |-> 0, entry_price |-> 0]

\* PositionManager.__init__ (lines 84-104); tasks holds the calls made so far
NewManager(c) ==
    [exists |-> TRUE, config |-> c, cash |-> c.initial_capital,
     positions |-> [s \in Symbols |-> NoHolding],
     trade_history |-> << >>, tasks |-> << >>]

Holdings(m) == {s \in Symbols : m.positions[s].held}

\* price and quantity arguments; None lets open_position size the order
OrderPrices == {10, 30}

OrderQuantities == {None, 4, 12}

\* open_position without the cash test of lines 176-178
open_position_NoCashCheck(m, symbol, price, quantity, order_ok) ==
    IF m.positions[symbol].held THEN [m |-> m, result |-> "None", state |-> "returned"]
    ELSE IF Cardinality(Holdings(m)) >= m.config.max_positions
    THEN [m |-> m, result |-> "None", state |-> "returned"]
    ELSE LET q == IF quantity = None
                  THEN (m.cash * m.config.max_position_size_pct) \div (100 * price)
                  ELSE quantity
             total_cost == price * q
         IN IF ~(m.config.broker_enabled /\ order_ok)
            THEN [m |-> m, result |-> "None", state |-> "alerting"]
            ELSE [m |-> [m EXCEPT !.cash = @ - total_cost,
                                  !.positions[symbol] =
                                      [held |-> TRUE, quantity |-> q, entry_price |-> price]],
                  result |-> "position", state |-> "notifying"]

\* open_position (lines 139-229) from its entry to its first suspension.
\* place_order and get_access_token send their requests with the blocking
\* requests.post (broker_api.py lines 56, 155) and await nothing that
\* suspends, so "await self.broker_api.place_order" returns without handing
\* control to another task; the call suspends only in the telegram message
\* of line 192 (order failed, or no broker: order_result stays None) or of
\* line 220 (position stored).  order_ok is the broker's answer.
open_position(m, symbol, price, quantity, order_ok) ==
    IF m.positions[symbol].held THEN [m |-> m, result |-> "None", state |-> "returned"]
    ELSE IF Cardinality(Holdings(m)) >= m.config.max_positions
    THEN [m |-> m, result |-> "None", state |-> "returned"]
    ELSE LET q == IF quantity = None
                  THEN (m.cash * m.config.max_position_size_pct) \div (100 * price)
                  ELSE quantity
             total_cost == price * q
         IN IF total_cost > m.cash
            THEN [m |-> m, result |-> "None", state |-> "returned"]
            ELSE IF ~(m.config.broker_enabled /\ order_ok)
            THEN [m |-> m, result |-> "None", state |-> "alerting"]
            ELSE [m |-> [m EXCEPT !.cash = @ - total_cost,
                                  !.positions[symbol] =
                                      [held |-> TRUE, quantity |-> q, entry_price |-> price]],
                  result |-> "position", state |-> "notifying"]

\* close_position (lines 231-305) from its entry to the telegram message of
\* line 296; without a broker the order is not sent and the close goes on
close_position(m, symbol, price, order_ok) ==
    IF ~m.positions[symbol].held THEN [m |-> m, result |-> "None", state |-> "returned"]
    ELSE IF m.config.broker_enabled /\ ~order_ok
    THEN [m |-> m, result |-> "None", state |-> "returned"]
    ELSE LET position == m.positions[symbol]
         IN [m |-> [m EXCEPT !.cash = @ + price * position.quantity,
                             !.positions[symbol] = NoHolding,
                             !.trade_history =
                                 Append(@, [symbol |-> symbol,
                                            entry_price |-> position.entry_price,
                                            exit_price |-> price,
                                            quantity |-> position.quantity,
                                            pnl |-> (price - position.entry_price)
                                                       * position.quantity])],
             result |-> "trade", state |-> "notifying"]

InitManager ==
    /\ BacktestIdle
    /\ EngineIdle
    /\ call = NoCall
    /\ mc = NoMonteCarlo
    /\ \E c \in ManagerConfigs : pm = NewManager(c)

\* a task calls open_position and runs it to its first suspension or return
PmOpen(symbol, price, quantity, order_ok) ==
    /\ pm.exists
    /\ Len(pm.tasks) < MaxCalls
    /\ LET r == open_position(pm, symbol, price, quantity, order_ok)
       IN pm' = [r.m EXCEPT !.tasks = Append(@, [fn |-> "open_position", symbol |-> symbol,
                                                  state |-> r.state, result |-> r.result])]
    /\ UNCHANGED <<btVars, engVars, call, mc>>

\* a task calls close_position and runs it to its suspension or return
PmClose(symbol, price, order_ok) ==
    /\ pm.exists
    /\ Len(pm.tasks) < MaxCalls
    /\ LET r == close_position(pm, symbol, price, order_ok)
       IN pm' = [r.m EXCEPT !.tasks = Append(@, [fn |-> "close_position", symbol |-> symbol,
                                                  state |-> r.state, result |-> r.result])]
    /\ UNCHANGED <<btVars, engVars, call, mc>>

\* the telegram message of a suspended call is sent and the call returns
PmResume(c) ==
    /\ pm.exists
    /\ c \in 1..Len(pm.tasks)
    /\ pm.tasks[c].state \in {"alerting", "notifying"}
    /\ pm' = [pm EXCEPT !.tasks[c].state = "returned"]
    /\ UNCHANGED <<btVars, engVars, call, mc>>

NextManager ==
    \/ \E s \in Symbols : \E p \in OrderPrices : \E q \in OrderQuantities : \E ok \in BOOLEAN :
          PmOpen(s, p, q, ok)
    \/ \E s \in Symbols : \E p \in OrderPrices : \E ok \in BOOLEAN : PmClose(s, p, ok)
    \/ \E c \in 1..MaxCalls : PmResume(c)

SpecManager == InitManager /\ [][NextManager]_vars

\* =========================================================================
\* Properties
\* =========================================================================
RECURSIVE SumPnl(_)
SumPnl(trades) == IF trades = << >> THEN 0 ELSE Head(trades).pnl + SumPnl(Tail(trades))

TradeIdx == 1..Len(st.trades)

Skipped(k) == \E w \in 1..Len(st.warnings) : st.warnings[w] = <<"skipped", k>>
NoSkippedBar == \A k \in 0..(cfg.len - 1) : ~Skipped(k)

LastEquity == st.equity_history[Len(st.equity_history)]

\* C1: when run() has returned and no bar was skipped for missing OHLC,
\* initial_capital plus the pnl of all recorded trades (partial exits, full
\* exits and the forced final exit) equals the last value of the equity curve.
C1_PnlRoundTrip ==
    (pc = "done" /\ NoSkippedBar)
        => cfg.initial_capital + SumPnl(st.trades) = LastEquity

\* a finished run without skipped bars that recorded a partial exit, a stop
\* and a forced final exit
C1_Witness ==
    /\ pc = "done"
    /\ NoSkippedBar
    /\ \E t \in TradeIdx : st.trades[t].partial
    /\ \E t \in TradeIdx : st.trades[t].exit_reason = "stop_loss"
    /\ \E t \in TradeIdx : st.trades[t].exit_reason = "final_exit"

\* C2 as stated: every recorded trade has exit_date strictly later than
\* entry_date (no position is opened and closed on the same bar).
C2_ExitStrictlyAfterEntry ==
    \A t \in TradeIdx : st.trades[t].exit_date > st.trades[t].entry_date

\* C2 amended: no trade exits before its entry; a trade closed by an exit
\* signal (exit_signal_open) exits strictly later than it entered, while
\* stop_loss, take_profit, partial and final_exit trades can fall on the
\* entry bar; holding_days is the difference of the two dates.
C2_ExitNotBeforeEntry ==
    \A t \in TradeIdx :
        /\ st.trades[t].exit_date >= st.trades[t].entry_date
        /\ st.trades[t].exit_reason = "exit_signal_open"
              => st.trades[t].exit_date > st.trades[t].entry_date
        /\ st.trades[t].holding_days = st.trades[t].exit_date - st.trades[t].entry_date

\* a ledger holding a same-bar stop, a same-bar final exit or partial, and a
\* signal-driven exit
C2_Witness ==
    /\ \E t \in TradeIdx : /\ st.trades[t].exit_date = st.trades[t].entry_date
                           /\ st.trades[t].exit_reason = "stop_loss"
    /\ \E t \in TradeIdx : st.trades[t].exit_reason = "exit_signal_open"

\* C3: once trading_halted is true it stays true (with the bar it was set
\* on), and every position or trade was entered strictly before the halting
\* bar: a pending entry due on or after that bar is never filled.
C3_HaltIsPermanent ==
    [][ /\ st.trading_halted => (st'.trading_halted /\ st'.halt_date = st.halt_date)
        /\ st'.trading_halted =>
              /\ HasPosition(st') => st'.position.entry_date < st'.halt_date
              /\ \A t \in 1..Len(st'.trades) :
                    st'.trades[t].entry_date < st'.halt_date ]_vars

\* the halt was set on the very bar a pending entry was due, that bar and a
\* later one have been handled, and a trade exists
C3_Witness ==
    /\ st.trading_halted
    /\ st.pending_entry_idx = st.halt_date
    /\ i > st.halt_date + 1
    /\ st.trades # << >>

\* C4: a fill never happens on the bar of its signal.  A position opened on
\* the bar just handled was signalled on the bar before and is priced from
\* this bar's open; an exit_signal_open trade of this bar was signalled on
\* the bar before and is priced from this bar's adjusted open; a scheduled
\* entry or exit always lies on a later bar of the series, so a signal on
\* the last bar schedules nothing.
C4_FillOnNextBar ==
    LET cur == i - 1
        EntryOk(entry_price) ==
            /\ prev_row.entry_signal /\ ~prev_row.missing
            /\ entry_price = _execute_entry_price(row.open)
    IN /\ (HasPosition(st) /\ st.position.entry_date = cur)
              => EntryOk(st.position.entry_price)
       /\ \A t \in TradeIdx :
            /\ st.trades[t].entry_date = cur => EntryOk(st.trades[t].entry_price)
            /\ (st.trades[t].exit_reason = "exit_signal_open" /\ st.trades[t].exit_date = cur)
                  => /\ prev_row.exit_signal /\ ~prev_row.missing
                     /\ st.trades[t].exit_date > st.trades[t].entry_date
                     /\ st.trades[t].exit_price = _execute_exit_price(row.open)
       /\ st.pending_entry_idx # None => st.pending_entry_idx \in 1..(cfg.len - 1)
       /\ st.pending_exit_idx # None => st.pending_exit_idx \in 1..(cfg.len - 1)
       /\ (pc = "loop" /\ i > 0 /\ st.pending_entry_idx > cur) => st.pending_entry_idx = i
       /\ (pc = "loop" /\ i > 0 /\ st.pending_exit_idx > cur) => st.pending_exit_idx = i

\* the last bar carried both signals; on it an exit signalled the bar before
\* was filled at the open, and a position had been opened at an earlier open
C4_Witness ==
    /\ i = cfg.len
    /\ row.entry_signal /\ row.exit_signal
    /\ \E t \in TradeIdx : /\ st.trades[t].exit_reason = "exit_signal_open"
                           /\ st.trades[t].exit_date = i - 1

\* C6: while one position lives (same entry_date before and after a bar) its
\* stop_loss and its highest_price never decrease, and a changed stop_loss is
\* exactly highest_price * (1 - trailing_pct).
C6_TrailingStopRatchet ==
    [][ (HasPosition(st) /\ HasPosition(st')
         /\ st'.position.entry_date = st.position.entry_date)
        => /\ st'.position.stop_loss >= st.position.stop_loss
           /\ st'.position.highest_price >= st.position.highest_price
           /\ st'.position.stop_loss # st.position.stop_loss
                => st'.position.stop_loss * 100
                     = st'.position.highest_price * (100 - cfg.rp.trailing_pct) ]_vars

\* a position at least two bars old whose stop was raised above the level it
\* was opened with, after a bar whose high lies below the highest price
C6_Witness ==
    /\ HasPosition(st)
    /\ st.position.entry_date < i - 1
    /\ st.position.stop_loss * 100 > st.position.entry_price * (100 - cfg.rp.stop_pct)
    /\ ~row.missing
    /\ row.high < st.position.highest_price

\* C7: the flat 100-bar KRW series at 100 with an entry signal on bar 10, an
\* exit signal on bar 20, stop_pct 0.08, take_pct 10.0, equal weight and no
\* slippage or cost ends with exactly one trade, entered at 100, left at 100,
\* with pnl 0.
C7_FlatSeriesOneTrade ==
    pc = "done" =>
        /\ Len(st.trades) = 1
        /\ st.trades[1].entry_price = 100 * Scale
        /\ st.trades[1].exit_price = 100 * Scale
        /\ st.trades[1].pnl = 0

\* the flat run has returned, with the trade entered on bar 11 and closed by
\* the exit signal on bar 21
C7_Witness ==
    /\ pc = "done"
    /\ cfg = FlatConfig
    /\ st.trades # << >>
    /\ st.trades[1].entry_date = 11
    /\ st.trades[1].exit_date = 21
    /\ st.trades[1].exit_reason = "exit_signal_open"
    /\ st.trades[1].shares > 0

\* C8: the step over a bar with a missing price appends the previous equity
\* to the equity curve, a daily return of 0 and one warning, leaves every
\* other local of the run (cash, position, cooldown, halt flag, pending
\* entry and exit, ledger) unchanged, and goes on to the next bar.
C8_SkippedBarFrame ==
    [][ (row'.missing /\ i' = i + 1)
        => /\ st'.equity_history = Append(st.equity_history, st.equity)
           /\ st'.daily_returns = Append(st.daily_returns, <<0, 1>>)
           /\ st'.warnings = Append(st.warnings, <<"skipped", i>>)
           /\ st' = [st EXCEPT !.equity_history = st'.equity_history,
                               !.daily_returns = st'.daily_returns,
                               !.warnings = st'.warnings]
           /\ pc' = "loop" ]_vars

\* a bar was skipped while a position was open with its exit due on that bar
C8_Witness ==
    /\ row.missing
    /\ i >= 2
    /\ HasPosition(st)
    /\ st.pending_exit_idx = i - 1

EntrySkippedAt(s, k) == \E w \in 1..Len(s.warnings) : s.warnings[w] = <<"entry_skipped", k>>

\* C9: on the bar where a due entry sizes to zero shares no position is
\* opened, cash and the ledger stay as they were, exactly that warning is
\* added by the entry step, the pending entry is cleared, and the run goes
\* on: an entry signal on that same bar (when it is not the last) is
\* scheduled for the next bar, where it can open a position.
C9_ZeroSharesSkipsEntry ==
    [][ (i' = i + 1 /\ EntrySkippedAt(st', i) /\ ~EntrySkippedAt(st, i))
        => /\ ~HasPosition(st) /\ ~HasPosition(st')
           /\ st'.cash = st.cash
           /\ st'.trades = st.trades
           /\ pc' = "loop"
           /\ st'.pending_entry_idx =
                 IF row'.entry_signal /\ i + 1 < cfg.len THEN i + 1 ELSE None ]_vars

\* an entry was skipped for zero shares on some bar and a position was
\* opened on a later bar
C9_Witness ==
    \E k \in 0..(cfg.len - 1) :
        /\ EntrySkippedAt(st, k)
        /\ HasPosition(st)
        /\ st.position.entry_date > k

\* C10: when the emergency-stop request completes, the engine is stopped:
\* its is_running flag is false and none of its loop tasks is still running.
C10_EmergencyStopStopsEngine ==
    [][ routes'.emergency_calls # routes.emergency_calls
        => (~engine'.is_running /\ ~LoopsActive') ]_vars

\* the engine is Stopped: the flag is false, no loop task is left and every
\* start() call has returned
Stopped ==
    /\ ~engine.is_running
    /\ ~LoopsActive
    /\ \A c \in 1..Len(calls) : calls[c].state = "returned"

\* stop() has cleared the flag while loop tasks are still alive
StopPending == engine.exists /\ ~engine.is_running /\ LoopsActive

\* C11: after stop() on a running engine, unless start() is called again
\* (which sets is_running back to true), every loop task terminates and
\* every start() call returns with is_running false.
C11_LoopsTerminateAfterStop == StopPending ~> (Stopped \/ engine.is_running)

\* one start() whose four loops have all left after a stop, and which returned
C11_Witness ==
    /\ Len(calls) = 1
    /\ calls[1].state = "returned"
    /\ \A k \in LoopNames : calls[1].tasks[k] = "done"
    /\ ~engine.is_running

\* C12: when the engine has reached Stopped, no position for which a
\* liquidating stop created its sell signal is still open; and a stop without
\* liquidation leaves active_positions and the signal queue as they were.
C12_StopLiquidatesPositions ==
    [][ /\ Stopped' =>
             \A s \in Symbols : engine'.active_positions[s] \notin engine'.closing
        /\ (engine.is_running /\ ~engine'.is_running /\ engine.config.mode # "live") =>
             /\ engine'.active_positions = engine.active_positions
             /\ engine'.signal_queue = engine.signal_queue ]_vars

\* C13: the number of entries of active_positions never exceeds
\* config.max_positions, whatever the interleaving of the loop tasks.
C13_MaxPositionsRespected ==
    Cardinality(OpenSymbols(engine)) <= engine.config.max_positions

\* the limit of one position is reached with A and a signal for B was
\* turned away by the risk check
C13_Witness ==
    /\ engine.config.max_positions = 1
    /\ OpenSymbols(engine) = {"A"}
    /\ \E j \in 1..Len(engine.signals_ignored) : engine.signals_ignored[j] = "B"

\* some _manage_positions task is suspended inside its loop over active_positions
Iterating == \E c \in 1..Len(calls) : calls[c].tasks["manage_positions"] = "iterating"

\* C14: while a loop is suspended in the middle of iterating over
\* active_positions, no step adds, removes or replaces an entry of it.
C14_NoChangeDuringIteration ==
    [][ Iterating => engine'.active_positions = engine.active_positions ]_vars

\* C15: a failed order submission records exactly one order with status
\* rejected and leaves active_positions, daily_pnl and trade_history as they
\* were; an order once recorded never changes.
C15_FailedOrderRecordedRejected ==
    [][ /\ \A j \in 1..Len(engine.pending_orders) :
               /\ j <= Len(engine'.pending_orders)
               /\ engine'.pending_orders[j] = engine.pending_orders[j]
        /\ engine'.order_errors # engine.order_errors =>
               /\ Len(engine'.pending_orders) = Len(engine.pending_orders) + 1
               /\ engine'.pending_orders[Len(engine'.pending_orders)].status = "rejected"
               /\ engine'.active_positions = engine.active_positions
               /\ engine'.daily_pnl = engine.daily_pnl
               /\ engine'.trade_history = engine.trade_history ]_vars

\* C16: run() is not aborted once an iteration has failed, and the runs it
\* reports is the number of iterations that completed.
C16_IterationFailureSkipped ==
    /\ mc.status = "raised" => mc.failed = 0
    /\ mc.status = "returned" => mc.runs = mc.i - mc.failed

\* the expression names an indicator whose column the table lacks
NamesAbsentIndicator ==
    \E j \in 1..Len(call.condition) :
        \E name \in call.condition[j].indicators \cap {"MACD", "RSI"} :
            name \notin call.indicators.columns

\* C17: evaluate_condition ends in an error, not a timeline, whenever the
\* expression names an indicator (RSI, MACD) whose column is absent.
C17_AbsentColumnFails ==
    (call.fn = "evaluate_condition" /\ call.result.kind # "pending" /\ NamesAbsentIndicator)
        => call.result.kind = "error"

\* the clauses of the expression that evaluate_condition recognizes, each as
\* its timeline: a clause of a recognized form whose columns are in the table
ClauseTimelines(condition, t, events) ==
    LET one(tok) ==
          (IF {"MACD", "cross_up"} \subseteq tok.substrings
                /\ {"MACD", "MACD_signal"} \subseteq t.columns
           THEN {cross_up(t)} ELSE {})
          \cup (IF {"MACD", "cross_down"} \subseteq tok.substrings
                     /\ {"MACD", "MACD_signal"} \subseteq t.columns
                THEN {cross_down(t)} ELSE {})
          \cup (IF "RSI" \in t.columns
                THEN {rsi_less(t, tok.rsi_less[k]) : k \in 1..Len(tok.rsi_less)}
                       \cup {rsi_greater(t, tok.rsi_greater[k]) : k \in 1..Len(tok.rsi_greater)}
                ELSE {})
          \cup (IF "+DI > -DI" \in tok.substrings /\ {"DI_plus", "DI_minus"} \subseteq t.columns
                THEN {di_above(t)} ELSE {})
          \cup (IF tok.within # << >> /\ events.given
                THEN {[d \in Dates |->
                         /\ tok.within[1].event \in events.columns
                         /\ \E e \in events.dates :
                               /\ e - tok.within[1].window_days <= d
                               /\ d <= e + tok.within[1].window_days]}
                ELSE {})
    IN UNION {one(condition[j]) : j \in 1..Len(condition)}

C19_TickFifty ==
    (call.fn = "round_to_tick" /\ call.up # None /\ call.price = 1234)
        => (call.up = 1250 /\ call.down = 1200)

\* C19 amended: the tick of a price from 1,000 to below 5,000 KRW is 5, so
\* 1,234 KRW rounds up to 1,235 and down to 1,230.
C19_TickFive ==
    (call.fn = "round_to_tick" /\ call.up # None /\ call.price = 1234)
        => (call.up = 1235 /\ call.down = 1230)

C19_Witness == call.fn = "round_to_tick" /\ call.price = 1234 /\ call.up # None

\* C20: _calculate_kelly_criterion returns 0 whenever win_loss_ratio <= 0 and
\* a value from 0 to 0.25 for every win_rate and win_loss_ratio.
C20_KellyBounded ==
    (call.fn = "_calculate_kelly_criterion" /\ call.returned) =>
        /\ ~IsNaN(call.result)
        /\ ~Less(call.result, <<0, 1>>)
        /\ ~Less(<<1, 4>>, call.result)
        /\ (call.win_loss_ratio # NaN /\ call.win_loss_ratio <= 0) => call.result = <<0, 1>>

\* a Kelly fraction above 0.25 was cut to 0.25
C20_Witness ==
    /\ call.fn = "_calculate_kelly_criterion"
    /\ call.returned
    /\ call.win_rate # NaN /\ call.win_loss_ratio # NaN /\ call.win_loss_ratio > 0
    /\ Less(<<1, 4>>, KellyFormula(call.win_rate, call.win_loss_ratio))
    /\ call.result = <<1, 4>>

\* the full exits taken inside the loop (the forced exit after the last bar
\* is followed by no bar)
LoopExitReasons == {"exit_signal_open", "stop_loss", "take_profit"}

\* the bars on which a position of the run was opened
EntryDates ==
    {st.trades[t].entry_date : t \in TradeIdx}
        \cup (IF HasPosition(st) THEN {st.position.entry_date} ELSE {})

\* C21: after a full exit with pnl <= 0 on bar i and cooldown_days_after_loss
\* = N > 0 no position is opened on the bars i+1 .. i+N; the cooldown counter
\* falls by at most one per bar, so that re-arming it never shortens it, and
\* it is never negative.
C21_CooldownBlocksEntries ==
    /\ [](\A t \in TradeIdx :
             (/\ st.trades[t].exit_reason \in LoopExitReasons
              /\ st.trades[t].pnl <= 0
              /\ cfg.rp.cooldown_days_after_loss > 0)
                 => \A k \in 1..cfg.rp.cooldown_days_after_loss :
                       st.trades[t].exit_date + k \notin EntryDates)
    /\ [](st.cooldown >= 0)
    /\ [][st'.cooldown >= st.cooldown - 1]_vars

\* a losing stop on bar 1 under a cooldown of one day, the entry signal
\* standing on the bars after it: the next position is opened on bar 3
C21_Witness ==
    /\ cfg.rp.cooldown_days_after_loss = 1
    /\ \E t \in TradeIdx :
          /\ st.trades[t].exit_reason = "stop_loss"
          /\ st.trades[t].pnl <= 0
          /\ st.trades[t].exit_date = 1
    /\ HasPosition(st)
    /\ st.position.entry_date = 3

\* the locals of run() at line 173 of the bar being handled: after the halt
\* test, the scheduled fills and the trailing stop
Managed ==
    LET s3 == EntryStep(PendingExitStep(HaltStep(st, i), i, row'), i, row')
    IN IF HasPosition(s3) THEN TrailingStep(s3, row') ELSE s3

\* the trades the bar being handled added from line 173 on
ManagedTrades == SubSeq(st'.trades, Len(Managed.trades) + 1, Len(st'.trades))

RECURSIVE PartialShares(_)
PartialShares(trades) ==
    IF trades = << >> THEN 0
    ELSE (IF Head(trades).partial THEN Head(trades).shares ELSE 0) + PartialShares(Tail(trades))

\* the last of the trades is a full exit with this reason, of these shares
EndsWithFullExit(trades, reason, shares) ==
    /\ trades # << >>
    /\ ~trades[Len(trades)].partial
    /\ trades[Len(trades)].exit_reason = reason
    /\ trades[Len(trades)].shares = shares

\* C22: on a bar with an open position the partial-exit rules run first, then
\* the stop-loss, then the take-profit only if the stop was not hit: with
\* low <= stop_loss the position exits with reason stop_loss even when high
\* >= take_profit, the partial trades of the bar stand before the full exit
\* in the ledger, and the full exit closes the shares the partials left.
C22_ExitOrderWithinBar ==
    [][ (pc = "loop" /\ i' = i + 1 /\ ~row'.missing /\ HasPosition(Managed)) =>
          LET new == ManagedTrades
              left == Managed.position.shares - PartialShares(new)
              stop_hit == row'.low <= Managed.position.stop_loss
              take_hit == row'.high >= Managed.position.take_profit
          IN /\ \A k \in 1..Len(new) : ~new[k].partial => k = Len(new)
             /\ \A k \in 1..Len(new) : new[k].exit_date = i
             /\ stop_hit => (EndsWithFullExit(new, "stop_loss", left) /\ ~HasPosition(st'))
             /\ (~stop_hit /\ take_hit) =>
                   (EndsWithFullExit(new, "take_profit", left) /\ ~HasPosition(st'))
             /\ (~stop_hit /\ ~take_hit) =>
                   /\ \A k \in 1..Len(new) : new[k].partial
                   /\ HasPosition(st')
                   /\ st'.position.shares = left ]_vars

\* the bar just handled reached the take-profit level and the stop: its
\* partial trade is followed in the ledger by the stop_loss trade of the
\* same position
C22_Witness ==
    /\ i > 0
    /\ \E t \in TradeIdx :
          /\ t > 1
          /\ st.trades[t].exit_reason = "stop_loss"
          /\ st.trades[t].exit_date = i - 1
          /\ st.trades[t - 1].partial
          /\ st.trades[t - 1].exit_date = i - 1
          /\ st.trades[t - 1].entry_date = st.trades[t].entry_date
          /\ st.trades[t].shares > 0
          /\ row.high * 100 >= st.trades[t].entry_price * (100 + cfg.rp.take_pct)

\* C23: when run() returns no position is open.  A position still open after
\* the last bar is closed by one more trade: all of its shares, at the
\* exit-adjusted close of the last bar (nan when that close is missing),
\* exit_reason final_exit, exit_date the last bar; the last equity-curve
\* value becomes the cash after that close.  Without an open position the
\* return adds no trade.
C23_FinalExitClosesPosition ==
    [][ (pc = "loop" /\ pc' = "done") =>
          /\ ~HasPosition(st')
          /\ i = cfg.len
          /\ ~HasPosition(st) => st'.trades = st.trades
          /\ HasPosition(st) =>
                LET t == st'.trades[Len(st'.trades)]
                IN /\ Len(st'.trades) = Len(st.trades) + 1
                   /\ SubSeq(st'.trades, 1, Len(st.trades)) = st.trades
                   /\ t.exit_reason = "final_exit"
                   /\ ~t.partial
                   /\ t.exit_date = cfg.len - 1
                   /\ t.entry_date = st.position.entry_date
                   /\ t.shares = st.position.shares
                   /\ t.exit_price = IF row.missing THEN NaN ELSE _execute_exit_price(row.close)
                   /\ st'.cash = IF row.missing THEN NaN
                                 ELSE st.cash + t.exit_price * t.shares
                   /\ st'.equity_history[Len(st'.equity_history)] = st'.cash
                   /\ Len(st'.equity_history) = cfg.len ]_vars

\* run() has returned after closing a position that was opened before the
\* last bar, below the last close (costs and tick rounding)
C23_Witness ==
    /\ pc = "done"
    /\ ~row.missing
    /\ st.trades # << >>
    /\ st.trades[Len(st.trades)].exit_reason = "final_exit"
    /\ st.trades[Len(st.trades)].entry_date < cfg.len - 1
    /\ st.trades[Len(st.trades)].exit_price < row.close
    /\ LastEquity = st.cash

\* the locals of run() at line 217 of the bar being handled, where the
\* scheduling guards are read
AtScheduling == ManageStep(EntryStep(PendingExitStep(HaltStep(st, i), i, row'), i, row'), i, row')

\* C24: a scheduled fill that was not executed on its due bar does not block
\* later signals: on a processed bar i that is not the last, a flat engine
\* that is not halted, with cooldown 0 and a true entry signal schedules an
\* entry for bar i+1, and an open position with a true exit signal schedules
\* an exit for bar i+1.
C24_MissedFillDoesNotBlock ==
    [][ (pc = "loop" /\ i' = i + 1 /\ ~row'.missing /\ i + 1 < cfg.len) =>
          LET s == AtScheduling
          IN /\ (~HasPosition(s) /\ ~s.trading_halted /\ s.cooldown = 0 /\ row'.entry_signal)
                   => st'.pending_entry_idx = i + 1
             /\ (HasPosition(s) /\ row'.exit_signal)
                   => st'.pending_exit_idx = i + 1 ]_vars

\* the signal processor takes the signal at the head of the queue
Dequeues == Len(engine'.signal_queue) = Len(engine.signal_queue) - 1

\* C25: a sell signal dequeued for a symbol with an active position is
\* executed and closes the position, also when the number of open positions
\* equals max_positions or the daily loss ceiling is exceeded: the risk
\* check blocks buys only.
C25_SellAlwaysExecuted ==
    [][ (/\ Dequeues
         /\ Head(engine.signal_queue).action = "sell"
         /\ engine.active_positions[Head(engine.signal_queue).symbol] # NoPos)
           => /\ engine'.active_positions[Head(engine.signal_queue).symbol] = NoPos
              /\ engine'.signals_ignored = engine.signals_ignored ]_vars

\* an order was filled and recorded by _execute_order
Fills == Len(engine'.pending_orders) = Len(engine.pending_orders) + 1

FilledOrder == engine'.pending_orders[Len(engine'.pending_orders)]

\* C26: the engine never fills a buy order for a symbol that already has an
\* active position and never fills a sell order for a symbol without one,
\* also when several signals for the symbol are queued before the first is
\* processed.
C26_NoDuplicateFill ==
    [][ (Fills /\ FilledOrder.status = "filled") =>
          /\ FilledOrder.side = "buy" => engine.active_positions[FilledOrder.symbol] = NoPos
          /\ FilledOrder.side = "sell" => engine.active_positions[FilledOrder.symbol] # NoPos ]_vars

\* the calls of start() whose task of loop k has not returned
Instances(k) ==
    {c \in 1..Len(calls) : calls[c].tasks[k] \in {"running", "iterating", "broadcasting"}}

\* C27: for any sequence of start() and stop() calls on one engine at most
\* one instance of each of the four loops is running at any time.
C27_OneInstancePerLoop == \A k \in LoopNames : Cardinality(Instances(k)) <= 1

\* the risk monitor of some start() stops the running engine and leaves
RiskMonitorStops ==
    /\ engine.is_running
    /\ ~engine'.is_running
    /\ \E c \in 1..Len(calls) :
          /\ calls[c].tasks["risk_monitor"] = "running"
          /\ calls'[c].tasks["risk_monitor"] = "done"

\* the signal processor drops a signal although a position slot is free
IgnoresOnPnl ==
    /\ Len(engine'.signals_ignored) = Len(engine.signals_ignored) + 1
    /\ Cardinality(OpenSymbols(engine)) < engine.config.max_positions

\* C28: the daily-loss breaker trips only on losses: the risk monitor stops
\* the engine, and the signal processor ignores a signal on daily P&L
\* grounds, only when daily_pnl is negative with magnitude above
\* total_capital * max_daily_loss; a realized gain never does.
C28_BreakerTripsOnLossOnly ==
    [][ (RiskMonitorStops \/ IgnoresOnPnl) => engine.daily_pnl < 0 - DailyLossCeiling ]_vars

\* the calls of the manager that are suspended in their telegram message
Suspended == {c \in 1..Len(pm.tasks) : pm.tasks[c].state \in {"alerting", "notifying"}}

\* a call was made in this step and ran to its suspension or return
CallMade == Len(pm'.tasks) = Len(pm.tasks) + 1

C30_SecondRunSameResult ==
    (call.fn = "run" /\ call.runs = 2 /\ pc = "done") => Outcome(st) = call.first
====
